---- MODULE Spec2Model ----
(***************************************************************************)
(* State-machine model of dvc.tree.base.BaseTree: the transfer engine      *)
(* (download / _download_dir / _download_file) with its ThreadPoolExecutor  *)
(* and the hashing engine (get_hash / get_dir_hash / _calculate_hashes).    *)
(***************************************************************************)
EXTENDS Integers, Sequences, FiniteSets, TLC

\* ------------------------------------------------------------------ bounds
MaxMembers == 3
MaxJobs == 2
MaxHashCalls == 2
MaxEnvOps == 1
MaxRefs == 2
MaxStash == 3

\* ------------------------------------------------------------ path model
\* A location (PathInfo) is its sequence of path segments.
FromRoot == <<"src">>
ToRoot == <<"dst">>

MemberNames == <<"a", "b", "c", "d", "e", "f">>

\* The i-th file below the source root: odd ones at the top level, even ones
\* in a sub-directory, so that two members share a file name.
MemberPath(i) ==
    IF i % 2 = 1 THEN FromRoot \o <<MemberNames[(i + 1) \div 2]>>
    ELSE FromRoot \o <<"sub", MemberNames[i \div 2]>>

MemberIds == 1..MaxMembers
AllMembers == {MemberPath(i) : i \in MemberIds}

\* tree.walk_files(from_info): the files below the root, as a list.
WalkFiles(n) == [i \in 1..n |-> MemberPath(i)]

\* info.relative_to(from_info): the segments after the root.
RelativeTo(p, root) == SubSeq(p, Len(root) + 1, Len(p))

\* to_info / rel
Join(base, rel) == base \o rel

\* path_info.parent
Parent(p) == SubSeq(p, 1, Len(p) - 1)

\* Mutant of DestOf: maps a member by its file name only.
DestOfByName(u, isDir) ==
    IF isDir THEN Join(ToRoot, <<u[Len(u)]>>) ELSE ToRoot

\* Destination of a unit: to_info / info.relative_to(from_info) for a
\* directory member, to_info itself for a single file.
DestOf(u, isDir) ==
    IF isDir THEN Join(ToRoot, RelativeTo(u, FromRoot)) ELSE ToRoot

\* The directory the hashing engine works on, its ordinary files and the
\* ignore-marker file (DvcIgnore.DVCIGNORE_FILE), which sits in a
\* sub-directory.
DataRoot == <<"data">>
DVCIGNORE_FILE == ".dvcignore"
HashFile(i) ==
    IF i % 2 = 1
    THEN DataRoot \o <<MemberNames[i]>>
    ELSE DataRoot \o <<"sub", MemberNames[i]>>
MarkerFile == DataRoot \o <<"sub", DVCIGNORE_FILE>>
HashFiles == {HashFile(i) : i \in MemberIds} \cup {MarkerFile}
HashLocs == HashFiles \cup {DataRoot}

\* path_info.name
Name(p) == p[Len(p)]

\* All orders in which the elements of S can be listed.
Perms(S) ==
    {s \in [1..Cardinality(S) -> S] :
        \A i, j \in 1..Cardinality(S) : i # j => s[i] # s[j]}

AllUnits == AllMembers \cup {FromRoot} \cup HashFiles
DestLocs == {DestOf(u, TRUE) : u \in AllMembers} \cup {ToRoot}
        \cup {DestOfByName(u, TRUE) : u \in AllMembers}
TmpLocs == [base : DestLocs, uuid : {1, 2}]

\* ------------------------------------------------------------ file contents
NoObj == [st |-> "none", of |-> <<>>]
OldObj == [st |-> "old", of |-> <<>>]
PartOf(u) == [st |-> "part", of |-> u]
FullOf(u) == [st |-> "full", of |-> u]

\* ------------------------------------------------------------------ errors
NoErr == [kind |-> "none", member |-> <<>>]
\* The exception the backend's _download raises for member u.
MemberError(u) == [kind |-> "MemberError", member |-> u]
MoveError(u) == [kind |-> "MoveError", member |-> u]
\* The exception the backend's get_file_hash raises for file u.
HashError(u) == [kind |-> "HashError", member |-> u]
\* DvcIgnoreInCollectedDirError(fi.parent)
DvcIgnoreInCollectedDirError(d) ==
    [kind |-> "DvcIgnoreInCollectedDirError", member |-> d]

\* RemoteActionNotImplemented(action, scheme)
RemoteActionNotImplemented(action, sch) ==
    [kind |-> "RemoteActionNotImplemented", member |-> <<action, sch>>]
NotImplementedError == [kind |-> "NotImplementedError", member |-> <<>>]

\* ----------------------------------------------------- trees and schemes
\* The optional primitives of a tree; "copy" stands for a copy that
\* overrides BaseTree.copy.
Primitives == {"_download", "_upload", "_upload_fobj", "copy"}
Schemes == {"local", "s3", "gs"}
TreeSchemes == {"local", "s3"}

\* ------------------------------------------------------------------ hashes
\* A HashInfo: the flag is what the ".dir" suffix of the value encodes; the
\* value of a file hash stands for the digest of the file's content, the
\* value of a directory hash for the digest of the serialized manifest.
NoHash == [isdir |-> FALSE, value |-> {}]
\* bool(hash_info)
Truthy(h) == h # NoHash

VARIABLES
    session,     \* "transfer": download calls; "hashing": hashing calls
    stateKind,   \* tree.state: "noop" (StateNoop, the default) or "real"
    present,     \* the files that exist below DataRoot
    dirPresent,  \* DataRoot exists
    ver,         \* version of each file's content
    stateDb,     \* the fingerprint cache (tree.state)
    cacheStore,  \* manifests the cache-store holds, by directory hash
    dirInfoSet,  \* directory hashes registered by cache.set_dir_info
    hOp,         \* the hashing call in progress or last made
    hTarget,     \* its path_info
    nested,      \* get_dir_hash was called by get_hash
    hit,         \* get_hash returned the fingerprint cache's entry
    hinfo,       \* hash_info of the call
    trie,        \* dir_info.trie under construction
    ri,          \* index of the result executor.map is waiting for
    nHashed,     \* get_file_hash invocations made by get_hash in this call
    served,      \* successful get_hash returns per file since its last change
    runs,        \* get_file_hash runs by get_hash per file since its last change
    hCalls,      \* hashing calls started
    envOps,      \* changes made to the files and the cache-store from outside
    lastEnv,     \* the last of them: "modify", "delete", "evict"
    deletedDuring, \* the target was deleted while its hash was computed
    retHash,     \* the hash the last call returned
    hres,        \* the hash a finished hashing unit returned
    firstFailed, \* the hashing unit of the batch whose failure came first
    walk,        \* files walk_files listed that _iter_hashes has not looked up yet
    srcIsDir,    \* tree.isdir(from_info)
    nMembers,    \* number of files below the source root
    jobs,        \* max_workers = jobs or self.jobs
    failing,     \* members whose backend _download raises
    preexisting, \* whether the destinations held objects before the first call
    pc,          \* position of the calling thread ("crashed": interrupted)
    callNo,      \* number of download calls started
    units,       \* from_infos, in submission order
    fut,         \* state of each unit's Future
    ferr,        \* the exception stored in a failed Future
    ustep,       \* position of a running unit inside _download_file
    queue,       \* the executor's work queue
    snap,        \* as_completed: futures finished when the iteration began
    waitq,       \* as_completed: futures finished since, in completion order
    observed,    \* futures yielded by as_completed so far
    lastSeen,    \* the last of them
    ci,          \* index of the cancel loop
    exc,         \* the exception being raised
    result,      \* outcome of the last call: "none", "ok", "error"
    prevResult,  \* outcome of the call before it
    raised,      \* the error the last call raised
    dest,        \* destination locations
    tmpfs,       \* temporary files next to the destinations
    dirs,        \* directories created by makedirs
    prims,       \* the optional primitives the tree has (hasattr; copy: overridden)
    scheme,      \* self.scheme
    fromScheme,  \* from_info.scheme
    toScheme,    \* to_info.scheme
    detail,      \* PARAM_CHECKSUM in DETAIL_FIELDS: the listing carries checksums
    api,         \* the public transfer operation called last
    called,      \* what that operation handed the transfer to
    retval,      \* what it returned: "-" (nothing yet, or raised), "None", "0"
    refs,        \* experiment references: baseline revision of each, "none" when absent
    ptrs,        \* EXEC_BRANCH, EXEC_APPLY, EXEC_CHECKPOINT: the reference pointed at, 0 when unset
    stash,       \* the stash of queued experiments, entry 0 first
    refs0,       \* the references before gc
    ptrs0,       \* the pointers before gc
    stash0,      \* the stash before gc
    keep_revs,   \* gc: keep_revs
    queued,      \* gc: the queued argument
    exec_refs,   \* gc: exec_branch, exec_apply, exec_checkpoint as read at 35-37
    todo,        \* gc: references exp_refs has not yielded yet
    delete_stashes, \* gc: delete_stashes, sorted once the second loop runs
    removed,     \* gc: removed
    gcPc,        \* gc: position of the call
    gcRet        \* gc: the value returned, -1 before

hashVars == <<stateKind, present, dirPresent, ver, stateDb, cacheStore,
              dirInfoSet, hOp, hTarget, nested, hit, hinfo, trie, ri, nHashed,
              served, runs, hCalls, envOps, lastEnv, deletedDuring, retHash, hres, firstFailed, walk>>

vars == <<session, hashVars, srcIsDir, nMembers, jobs, failing, preexisting, pc, callNo, units,
          fut, ferr, ustep, queue, snap, waitq, observed, lastSeen, ci, exc,
          result,
          prevResult, raised, dest, tmpfs, dirs, prims, scheme, fromScheme,
          toScheme, detail, api, called, retval, refs, ptrs, stash, refs0, ptrs0, stash0,
          keep_revs, queued, exec_refs, todo, delete_stashes, removed, gcPc, gcRet>>

treeVars == <<prims, scheme, fromScheme, toScheme, detail>>
callVars == <<api, called, retval>>
gcVars == <<refs, ptrs, stash, refs0, ptrs0, stash0, keep_revs, queued, exec_refs,
            todo, delete_stashes, removed, gcPc, gcRet>>
inputVars == <<session, srcIsDir, nMembers, jobs, preexisting, treeVars>>
asVars == <<snap, waitq, observed, lastSeen>>
fsVars == <<dest, tmpfs, dirs>>

InitialObj == IF preexisting THEN OldObj ELSE NoObj

\* ------------------------------------------------- experiment references
Revs == {"rev1", "rev2"}
RefIds == 1..MaxRefs
EXEC_BRANCH == "EXEC_BRANCH"
EXEC_APPLY == "EXEC_APPLY"
EXEC_CHECKPOINT == "EXEC_CHECKPOINT"
ExecNames == {EXEC_BRANCH, EXEC_APPLY, EXEC_CHECKPOINT}

\* No repository of experiments is looked at.
GcIdle ==
    /\ refs = [r \in RefIds |-> "none"]
    /\ ptrs = [n \in ExecNames |-> 0]
    /\ stash = <<>>
    /\ refs0 = refs
    /\ ptrs0 = ptrs
    /\ stash0 = stash
    /\ keep_revs = {}
    /\ queued = FALSE
    /\ exec_refs = [n \in ExecNames |-> 0]
    /\ todo = {}
    /\ delete_stashes = <<>>
    /\ removed = 0
    /\ gcPc = "idle"
    /\ gcRet = -1

\* No transfer operation was called yet.
CallIdle ==
    /\ api = "none"
    /\ called = "none"
    /\ retval = "-"

\* A tree with a download primitive, a source on the tree and a local
\* destination.
DownloadReady ==
    /\ prims = {"_download"}
    /\ scheme = "s3"
    /\ fromScheme = "s3"
    /\ toScheme = "local"
    /\ detail = FALSE

UnitSet == {units[i] : i \in 1..Len(units)}
Running == {u \in AllUnits : fut[u] = "running"}
\* The work items a worker thread took from the queue and has not run yet.
Taken == {u \in AllUnits : ustep[u] = "taken"}
Finished == {u \in AllUnits : fut[u] \in {"done", "failed"}}

\* tmp_fname(to_info): a fresh name in the destination's directory.
TmpFname(to) == [base |-> to, uuid |-> callNo]

\* Mutant of DownloadTarget: the backend writes straight to the destination.
DownloadTargetDest(u) == [kind |-> "dest", loc |-> DestOf(u, srcIsDir)]

\* The file _download_file hands to the backend's _download.
DownloadTarget(u) == [kind |-> "tmp", loc |-> TmpFname(DestOf(u, srcIsDir))]

\* The hashing engine's variables while the transfer engine is exercised.
HashIdle ==
    /\ stateKind = "noop"
    /\ present = {}
    /\ dirPresent = FALSE
    /\ ver = [f \in HashFiles |-> 0]
    /\ stateDb = [l \in HashLocs |-> [has |-> FALSE, fp |-> {}, hash |-> NoHash]]
    /\ cacheStore = {}
    /\ dirInfoSet = {}
    /\ hOp = "none"
    /\ hTarget = DataRoot
    /\ nested = FALSE
    /\ hit = FALSE
    /\ hinfo = NoHash
    /\ trie = {}
    /\ ri = 0
    /\ nHashed = 0
    /\ served = [f \in HashFiles |-> 0]
    /\ runs = [f \in HashFiles |-> 0]
    /\ hCalls = 0
    /\ envOps = 0
    /\ lastEnv = "none"
    /\ deletedDuring = FALSE
    /\ retHash = NoHash
    /\ hres = [u \in HashFiles |-> NoHash]
    /\ firstFailed = <<>>
    /\ walk = <<>>

Init ==
    /\ session = "transfer"
    /\ HashIdle
    /\ GcIdle
    /\ CallIdle
    /\ DownloadReady
    /\ srcIsDir \in BOOLEAN
    /\ nMembers \in 0..MaxMembers
    /\ jobs \in 1..MaxJobs
    /\ preexisting \in BOOLEAN
    /\ failing \in SUBSET (IF srcIsDir THEN {MemberPath(i) : i \in 1..nMembers}
                                       ELSE {FromRoot})
    /\ (~srcIsDir => nMembers = 0 /\ jobs = 1)
    /\ pc = "idle"
    /\ callNo = 0
    /\ units = <<>>
    /\ fut = [u \in AllUnits |-> "none"]
    /\ ferr = [u \in AllUnits |-> NoErr]
    /\ ustep = [u \in AllUnits |-> "-"]
    /\ queue = <<>>
    /\ snap = {}
    /\ waitq = <<>>
    /\ observed = {}
    /\ lastSeen = <<>>
    /\ ci = 0
    /\ exc = NoErr
    /\ result = "none"
    /\ prevResult = "none"
    /\ raised = NoErr
    /\ dest = [d \in DestLocs |-> IF preexisting THEN OldObj ELSE NoObj]
    /\ tmpfs = [t \in TmpLocs |-> NoObj]
    /\ dirs = {}

\* ------------------------------------------------------ download (entry)
\* Mutant of DownloadCheck: the destination is required to be local before
\* the same-scheme copy is considered.
DownloadCheckLocalFirst ==
    IF "_download" \notin prims
    THEN [do |-> "raise", err |-> RemoteActionNotImplemented("download", scheme)]
    ELSE IF fromScheme # scheme
    THEN [do |-> "raise", err |-> NotImplementedError]
    ELSE IF toScheme # "local"
    THEN [do |-> "raise", err |-> NotImplementedError]
    ELSE IF toScheme = scheme /\ scheme # "local"
    THEN [do |-> "copy", err |-> NoErr]
    ELSE [do |-> "run", err |-> NoErr]

\* The checks download() makes before it transfers anything.
DownloadCheck ==
    IF "_download" \notin prims
    THEN [do |-> "raise", err |-> RemoteActionNotImplemented("download", scheme)]
    ELSE IF fromScheme # scheme
    THEN [do |-> "raise", err |-> NotImplementedError]
    ELSE IF toScheme = scheme /\ scheme # "local"
    THEN [do |-> "copy", err |-> NoErr]
    ELSE IF toScheme # "local"
    THEN [do |-> "raise", err |-> NotImplementedError]
    ELSE [do |-> "run", err |-> NoErr]

\* download(): a directory goes to _download_dir, which lists the members and
\* submits one _download_file per member; a file is transferred by the caller.
\* The first call runs with the induced failures; a failed call is retried
\* once, with the induced failures removed.
Download ==
    /\ session = "transfer"
    /\ pc = "idle"
    /\ DownloadCheck.do = "run"
    /\ api' = "download"
    /\ called' = IF srcIsDir THEN "_download_dir" ELSE "_download_file"
    /\ retval' = "-"
    /\ \/ callNo = 0 /\ failing' = failing
       \/ callNo = 1 /\ result = "error" /\ failing' = {}
    /\ callNo' = callNo + 1
    /\ prevResult' = result
    /\ result' = "none"
    /\ raised' = NoErr
    /\ exc' = NoErr
    /\ ci' = 0
    /\ snap' = {}
    /\ waitq' = <<>>
    /\ observed' = {}
    /\ lastSeen' = <<>>
    /\ ferr' = [u \in AllUnits |-> NoErr]
    /\ IF srcIsDir
       THEN /\ units' = WalkFiles(nMembers)
            /\ fut' = [u \in AllUnits |->
                        IF u \in {MemberPath(i) : i \in 1..nMembers}
                        THEN "pending" ELSE "none"]
            /\ queue' = WalkFiles(nMembers)
            /\ ustep' = [u \in AllUnits |-> "-"]
            /\ pc' = "as_completed"
       ELSE /\ units' = <<FromRoot>>
            /\ fut' = [u \in AllUnits |-> IF u = FromRoot THEN "running" ELSE "none"]
            /\ queue' = <<>>
            /\ ustep' = [u \in AllUnits |-> IF u = FromRoot THEN "mk" ELSE "-"]
            /\ pc' = "file"
    /\ UNCHANGED <<hashVars, gcVars, inputVars, fsVars>>

\* ------------------------------------------------------------ worker pool
\* A worker thread takes the next work item from the queue; the item's
\* future is not touched yet and can still be cancelled.
WorkerTake ==
    /\ pc # "crashed"
    /\ queue # <<>>
    /\ Cardinality(Running \cup Taken) < jobs
    /\ queue' = Tail(queue)
    /\ ustep' = [ustep EXCEPT ![Head(queue)] = "taken"]
    /\ UNCHANGED <<hashVars, gcVars, callVars, inputVars, failing, pc, callNo, units, fut, ferr, asVars,
                   ci, exc, result, prevResult, raised, fsVars>>

\* The worker runs the item it took (Future.set_running_or_notify_cancel):
\* a cancelled item is dropped, any other starts _download_file or
\* get_file_hash.
WorkItemRun(u) ==
    /\ pc # "crashed"
    /\ ustep[u] = "taken"
    /\ IF fut[u] = "cancelled"
       THEN /\ ustep' = [ustep EXCEPT ![u] = "-"]
            /\ fut' = fut
       ELSE /\ fut' = [fut EXCEPT ![u] = "running"]
            /\ ustep' = [ustep EXCEPT ![u] =
                            IF session = "transfer" THEN "mk" ELSE "hash"]
    /\ UNCHANGED <<hashVars, gcVars, callVars, inputVars, failing, pc, callNo, units, queue, ferr,
                   asVars, ci, exc, result, prevResult, raised, fsVars>>

\* _download_file begins: makedirs(to_info.parent, exist_ok=True).
UnitMakedirs(u) ==
    /\ pc # "crashed"
    /\ fut[u] = "running"
    /\ ustep[u] = "mk"
    /\ dirs' = dirs \cup {Parent(DestOf(u, srcIsDir))}
    /\ ustep' = [ustep EXCEPT ![u] = "dl"]
    /\ UNCHANGED <<hashVars, gcVars, callVars, inputVars, failing, pc, callNo, units, queue, fut, ferr,
                   asVars, ci, exc, result, prevResult, raised, dest, tmpfs>>

\* What the waiter installed by as_completed records when a future finishes.
Notify(u) == IF pc = "loop" THEN Append(waitq, u) ELSE waitq

\* The backend's _download writes a first part of the object to its target.
UnitWrite(u) ==
    /\ pc # "crashed"
    /\ fut[u] = "running"
    /\ ustep[u] = "dl"
    /\ LET t == DownloadTarget(u) IN
        IF t.kind = "tmp"
        THEN /\ tmpfs' = [tmpfs EXCEPT ![t.loc] = PartOf(u)]
             /\ dest' = dest
        ELSE /\ dest' = [dest EXCEPT ![t.loc] = PartOf(u)]
             /\ tmpfs' = tmpfs
    /\ ustep' = [ustep EXCEPT ![u] = "dlp"]
    /\ UNCHANGED <<hashVars, gcVars, callVars, inputVars, failing, pc, callNo, units, fut, ferr, queue,
                   asVars, ci, exc, result, prevResult, raised, dirs>>

\* The backend's _download writes the rest and returns.
UnitWriteDone(u) ==
    /\ pc # "crashed"
    /\ fut[u] = "running"
    /\ ustep[u] = "dlp"
    /\ u \notin failing
    /\ LET t == DownloadTarget(u) IN
        IF t.kind = "tmp"
        THEN /\ tmpfs' = [tmpfs EXCEPT ![t.loc] = FullOf(u)]
             /\ dest' = dest
        ELSE /\ dest' = [dest EXCEPT ![t.loc] = FullOf(u)]
             /\ tmpfs' = tmpfs
    /\ ustep' = [ustep EXCEPT ![u] = "mv"]
    /\ UNCHANGED <<hashVars, gcVars, callVars, inputVars, failing, pc, callNo, units, fut, ferr, queue,
                   asVars, ci, exc, result, prevResult, raised, dirs>>

\* The backend's _download raises, before or after it wrote a part; nothing
\* in _download_file removes the temporary file.
UnitFail(u) ==
    /\ pc # "crashed"
    /\ fut[u] = "running"
    /\ ustep[u] \in {"dl", "dlp"}
    /\ u \in failing
    /\ fut' = [fut EXCEPT ![u] = "failed"]
    /\ ferr' = [ferr EXCEPT ![u] = MemberError(u)]
    /\ ustep' = [ustep EXCEPT ![u] = "-"]
    /\ waitq' = Notify(u)
    /\ UNCHANGED <<hashVars, gcVars, callVars, inputVars, failing, pc, callNo, units, queue, snap, observed,
                   lastSeen, ci, exc, result, prevResult, raised, fsVars>>

\* move(tmp_file, to_info): the destination takes the temporary file's
\* content in one step and the temporary file is gone.
UnitMove(u) ==
    /\ pc # "crashed"
    /\ fut[u] = "running"
    /\ ustep[u] = "mv"
    /\ LET t == TmpFname(DestOf(u, srcIsDir))
           d == DestOf(u, srcIsDir) IN
        IF tmpfs[t] = NoObj
        THEN /\ fut' = [fut EXCEPT ![u] = "failed"]
             /\ ferr' = [ferr EXCEPT ![u] = MoveError(u)]
             /\ UNCHANGED <<dest, tmpfs>>
        ELSE /\ fut' = [fut EXCEPT ![u] = "done"]
             /\ ferr' = ferr
             /\ dest' = [dest EXCEPT ![d] = tmpfs[t]]
             /\ tmpfs' = [tmpfs EXCEPT ![t] = NoObj]
    /\ ustep' = [ustep EXCEPT ![u] = "-"]
    /\ waitq' = Notify(u)
    /\ UNCHANGED <<hashVars, gcVars, callVars, inputVars, failing, pc, callNo, units, queue, snap, observed,
                   lastSeen, ci, exc, result, prevResult, raised, dirs>>

\* --------------------------------------------------- _download_dir (caller)
\* as_completed(futures) begins: the futures already finished are set aside
\* as a set, the others are waited for.
AsCompletedBegin ==
    /\ pc # "crashed"
    /\ pc = "as_completed"
    /\ snap' = Finished \cap UnitSet
    /\ pc' = "loop"
    /\ UNCHANGED <<hashVars, gcVars, callVars, inputVars, failing, callNo, units, fut, ferr, ustep, queue,
                   waitq, observed, lastSeen, ci, exc, result, prevResult, raised,
                   fsVars>>

\* Mutant of ExceptionOf: the failure of a member is not looked at.
ExceptionOfIgnored(f) == NoErr

\* future.exception()
ExceptionOf(f) == IF fut[f] = "failed" THEN ferr[f] ELSE NoErr

\* Mutant of RaisedFrom: a summary error instead of the member's own.
RaisedFromSummary(e) == [kind |-> e.kind, member |-> <<>>]

\* raise exc: the member's exception object itself is what is raised.
RaisedFrom(e) == e

\* One iteration of "for future in as_completed(futures)": the futures set
\* aside at the beginning come first, in any order, then the others in the
\* order they finished.  A failure ends the loop and starts the cancel loop.
ObserveNext ==
    /\ pc # "crashed"
    /\ pc = "loop"
    /\ \E f \in AllUnits :
        /\ \/ f \in snap
           \/ snap = {} /\ waitq # <<>> /\ f = Head(waitq)
        /\ snap' = snap \ {f}
        /\ waitq' = IF f \in snap THEN waitq ELSE Tail(waitq)
        /\ observed' = observed \cup {f}
        /\ lastSeen' = f
        /\ IF ExceptionOf(f) # NoErr
           THEN /\ exc' = RaisedFrom(ExceptionOf(f))
                /\ ci' = 1
                /\ pc' = "cancel"
           ELSE /\ UNCHANGED <<exc, ci>>
                /\ pc' = IF Cardinality(observed) + 1 = Len(units) THEN "exit_ok" ELSE "loop"
    /\ UNCHANGED <<hashVars, gcVars, callVars, inputVars, failing, callNo, units, fut, ferr, ustep, queue,
                   result, prevResult, raised, fsVars>>

\* as_completed over no futures ends at once.
LoopEmpty ==
    /\ pc # "crashed"
    /\ pc = "loop"
    /\ Len(units) = 0
    /\ pc' = "exit_ok"
    /\ UNCHANGED <<hashVars, gcVars, callVars, inputVars, failing, callNo, units, fut, ferr, ustep, queue,
                   asVars, ci, exc, result, prevResult, raised, fsVars>>

\* Mutant of CancelOutcome: cancel() has no effect.
CancelOutcomeNone(s) == s

\* Future.cancel(): a pending future becomes cancelled, a running or
\* finished one is left as it is.
CancelOutcome(s) == IF s = "pending" THEN "cancelled" ELSE s

\* One iteration of "for entry in futures: entry.cancel()"; after the last
\* one the exception is raised into the executor's with-block.
CancelEntry ==
    /\ pc # "crashed"
    /\ pc = "cancel"
    /\ ci <= Len(units)
    /\ fut' = [fut EXCEPT ![units[ci]] = CancelOutcome(fut[units[ci]])]
    /\ ci' = ci + 1
    /\ pc' = IF ci = Len(units) THEN "exit_err" ELSE "cancel"
    /\ UNCHANGED <<hashVars, gcVars, callVars, inputVars, failing, callNo, units, ferr, ustep, queue, asVars,
                   exc, result, prevResult, raised, fsVars>>

\* Mutant of ShutdownDone: the executor is left without waiting.
ShutdownDoneNoWait == TRUE

\* ThreadPoolExecutor.__exit__ = shutdown(wait=True): every worker thread has
\* drained the queue and ended.
ShutdownDone == queue = <<>> /\ Running = {} /\ Taken = {}

\* The with-block is left: the call returns, or the exception leaves it.
ExecutorExit ==
    /\ session = "transfer"
    /\ pc \in {"exit_ok", "exit_err"}
    /\ ShutdownDone
    /\ result' = IF pc = "exit_ok" THEN "ok" ELSE "error"
    /\ raised' = IF pc = "exit_ok" THEN NoErr ELSE exc
    /\ retval' = IF pc = "exit_ok" THEN "None" ELSE "-"
    /\ pc' = "idle"
    /\ UNCHANGED <<hashVars, gcVars, api, called, inputVars, failing, callNo, units, fut, ferr, ustep, queue,
                   asVars, ci, exc, prevResult, fsVars>>

\* download() of a single file returns, or the exception of _download_file
\* leaves it.
DownloadFileEnd ==
    /\ pc # "crashed"
    /\ pc = "file"
    /\ fut[FromRoot] \in {"done", "failed"}
    /\ result' = IF fut[FromRoot] = "done" THEN "ok" ELSE "error"
    /\ raised' = ExceptionOf(FromRoot)
    /\ retval' = IF fut[FromRoot] = "done" THEN "None" ELSE "-"
    /\ pc' = "idle"
    /\ UNCHANGED <<hashVars, gcVars, api, called, inputVars, failing, callNo, units, fut, ferr, ustep, queue,
                   asVars, ci, exc, prevResult, fsVars>>

\* The process is interrupted in the middle of a call.
Interrupt ==
    /\ pc \notin {"idle", "crashed"}
    /\ pc' = "crashed"
    /\ UNCHANGED <<hashVars, gcVars, callVars, inputVars, failing, callNo, units, fut, ferr, ustep, queue,
                   asVars, ci, exc, result, prevResult, raised, fsVars>>

\* ------------------------------------------- download without a transfer
runVars == <<units, fut, ferr, ustep, queue, asVars, ci, exc>>

\* download() raises at one of its checks.
DownloadRejected ==
    /\ session = "transfer"
    /\ pc = "idle"
    /\ callNo = 0
    /\ DownloadCheck.do = "raise"
    /\ callNo' = callNo + 1
    /\ api' = "download"
    /\ called' = "none"
    /\ retval' = "-"
    /\ prevResult' = result
    /\ result' = "error"
    /\ raised' = DownloadCheck.err
    /\ UNCHANGED <<hashVars, gcVars, inputVars, failing, pc, runVars, fsVars>>

\* What self.copy(from_info, to_info) raises: BaseTree.copy is not
\* implemented; a copy of the backend raises when the object cannot be
\* copied.
CopyError ==
    IF "copy" \notin prims
    THEN RemoteActionNotImplemented("copy", scheme)
    ELSE IF FromRoot \in failing THEN MemberError(FromRoot) ELSE NoErr

\* download() between two locations of the tree's own, non-local scheme:
\* self.copy(from_info, to_info), then return 0.
DownloadCopy ==
    /\ session = "transfer"
    /\ pc = "idle"
    /\ callNo = 0
    /\ DownloadCheck.do = "copy"
    /\ callNo' = callNo + 1
    /\ api' = "download"
    /\ called' = "copy"
    /\ prevResult' = result
    /\ raised' = CopyError
    /\ IF CopyError = NoErr
       THEN /\ dest' = [dest EXCEPT ![ToRoot] = FullOf(FromRoot)]
            /\ result' = "ok"
            /\ retval' = "0"
       ELSE /\ dest' = dest
            /\ result' = "error"
            /\ retval' = "-"
    /\ UNCHANGED <<hashVars, gcVars, inputVars, failing, pc, runVars, tmpfs, dirs>>

\* ------------------------------------------------------------------ upload
\* Mutant of UploadCheck: the schemes are checked before the primitive.
UploadCheckSchemesFirst ==
    IF toScheme # scheme
    THEN [do |-> "raise", err |-> NotImplementedError]
    ELSE IF fromScheme # "local"
    THEN [do |-> "raise", err |-> NotImplementedError]
    ELSE IF "_upload" \notin prims
    THEN [do |-> "raise", err |-> RemoteActionNotImplemented("upload", scheme)]
    ELSE [do |-> "run", err |-> NoErr]

\* The checks upload() makes before it transfers anything.
UploadCheck ==
    IF "_upload" \notin prims
    THEN [do |-> "raise", err |-> RemoteActionNotImplemented("upload", scheme)]
    ELSE IF toScheme # scheme
    THEN [do |-> "raise", err |-> NotImplementedError]
    ELSE IF fromScheme # "local"
    THEN [do |-> "raise", err |-> NotImplementedError]
    ELSE [do |-> "run", err |-> NoErr]

\* The check upload_fobj() makes.
UploadFobjCheck ==
    IF "_upload_fobj" \notin prims
    THEN [do |-> "raise", err |-> RemoteActionNotImplemented("upload_fobj", scheme)]
    ELSE [do |-> "run", err |-> NoErr]

\* The location upload() and upload_fobj() hand to the backend's primitive
\* to write to: to_info itself.
UploadTarget == [kind |-> "dest", loc |-> ToRoot]

\* upload(from_info, to_info) or upload_fobj(fobj, to_info) is called: it
\* raises at a check or calls the backend's primitive.
UploadEntry(name, prim, check) ==
    /\ session = "transfer"
    /\ pc = "idle"
    /\ callNo = 0
    /\ callNo' = callNo + 1
    /\ api' = name
    /\ retval' = "-"
    /\ prevResult' = result
    /\ IF check.do = "raise"
       THEN /\ called' = "none"
            /\ result' = "error"
            /\ raised' = check.err
            /\ pc' = pc
       ELSE /\ called' = prim
            /\ result' = "none"
            /\ raised' = NoErr
            /\ pc' = "upload"
    /\ UNCHANGED <<hashVars, gcVars, inputVars, failing, runVars, fsVars>>

Upload == UploadEntry("upload", "_upload", UploadCheck)

UploadFobj == UploadEntry("upload_fobj", "_upload_fobj", UploadFobjCheck)

\* The backend's upload primitive begins writing the object.
UploadWrite ==
    /\ pc = "upload"
    /\ LET t == UploadTarget IN
        IF t.kind = "tmp"
        THEN /\ tmpfs' = [tmpfs EXCEPT ![t.loc] = PartOf(FromRoot)]
             /\ dest' = dest
        ELSE /\ dest' = [dest EXCEPT ![t.loc] = PartOf(FromRoot)]
             /\ tmpfs' = tmpfs
    /\ pc' = "uploading"
    /\ UNCHANGED <<hashVars, gcVars, callVars, inputVars, failing, callNo, runVars,
                   result, prevResult, raised, dirs>>

\* The primitive has written the whole object and returns, and so does the
\* operation.
UploadWriteDone ==
    /\ pc = "uploading"
    /\ FromRoot \notin failing
    /\ LET t == UploadTarget IN
        IF t.kind = "tmp"
        THEN /\ tmpfs' = [tmpfs EXCEPT ![t.loc] = FullOf(FromRoot)]
             /\ dest' = dest
        ELSE /\ dest' = [dest EXCEPT ![t.loc] = FullOf(FromRoot)]
             /\ tmpfs' = tmpfs
    /\ pc' = "idle"
    /\ result' = "ok"
    /\ retval' = "None"
    /\ UNCHANGED <<hashVars, gcVars, api, called, inputVars, failing, callNo, runVars,
                   prevResult, raised, dirs>>

\* The primitive raises, before or in the middle of writing.
UploadFail ==
    /\ pc \in {"upload", "uploading"}
    /\ FromRoot \in failing
    /\ pc' = "idle"
    /\ result' = "error"
    /\ raised' = MemberError(FromRoot)
    /\ UNCHANGED <<hashVars, gcVars, callVars, inputVars, failing, callNo, runVars,
                   prevResult, fsVars>>

\* ------------------------------------------------------------ hashing engine
\* tree.exists(path_info)
Exists(l) == IF l = DataRoot THEN dirPresent ELSE l \in present

\* tree.isdir(path_info), of a backend that tells directories from files
IsDir(l) == l = DataRoot

\* The content of a file, and what a fingerprint (mtime, size) stands for:
\* it changes exactly when the content below the location changes.
Content(f) == [file |-> f, ver |-> ver[f]]
Fingerprint(l) == IF l = DataRoot THEN {Content(f) : f \in present} ELSE {Content(l)}

\* state.get(path_info): StateNoop always misses; a real state returns the
\* entry stored for the location if its fingerprint is still the current one.
StateGet(l) ==
    IF /\ stateKind = "real"
       /\ Exists(l)
       /\ stateDb[l].has
       /\ stateDb[l].fp = Fingerprint(l)
    THEN stateDb[l].hash
    ELSE NoHash

\* state.save(path_info, hash_info): StateNoop discards the entry.
StateSave(l, h) ==
    IF stateKind = "real"
    THEN [stateDb EXCEPT ![l] = [has |-> TRUE, fp |-> Fingerprint(l), hash |-> h]]
    ELSE stateDb

\* What get_file_hash returns for an existing file.
FileHashOf(f) == [isdir |-> FALSE, value |-> {[rel |-> <<>>, c |-> Content(f)]}]

\* The content a file hash stands for.
HashContent(h) == (CHOOSE e \in h.value : TRUE).c

\* Mutant of TrieKey: the entry is keyed by the file name alone.
TrieKeyByName(fi, root) == <<Name(fi)>>

\* fi.relative_to(path_info).parts
TrieKey(fi, root) == RelativeTo(fi, root)

\* dir_info.trie[fi.relative_to(path_info).parts] = hi
TrieEntry(fi, hi) == [rel |-> TrieKey(fi, DataRoot), c |-> HashContent(hi)]

\* dir_info.trie[key] = hi: an entry under the same key is replaced.
TriePut(t, fi, hi) ==
    {e \in t : e.rel # TrieKey(fi, DataRoot)} \cup {TrieEntry(fi, hi)}

\* The manifest after the pairs (file, hs[file]) of the files of seq were
\* entered one after the other.
RECURSIVE TriePutAll(_, _, _)
TriePutAll(t, seq, hs) ==
    IF seq = <<>>
    THEN t
    ELSE TriePutAll(TriePut(t, Head(seq), hs[Head(seq)]), Tail(seq), hs)

\* The size a HashInfo carries: the size of the content it stands for.
SizeOf(c) == Len(c.file) + c.ver

\* dir_info.size: the sizes of the manifest's entries added up.
RECURSIVE DirSize(_)
DirSize(t) ==
    IF t = {}
    THEN 0
    ELSE LET e == CHOOSE x \in t : TRUE
         IN SizeOf(e.c) + DirSize(t \ {e})

\* Mutant of ZipResults: the results are paired with the files in reverse.
ZipResultsReversed(us, hr) ==
    [f \in {us[i] : i \in 1..Len(us)} |->
        hr[us[Len(us) + 1 - (CHOOSE i \in 1..Len(us) : us[i] = f)]]]

\* dict(zip(file_infos, hash_infos)): executor.map yields the results in the
\* order of submission, so each file is paired with the result of its own
\* unit.
ZipResults(us, hr) ==
    [f \in {us[i] : i \in 1..Len(us)} |->
        hr[us[CHOOSE i \in 1..Len(us) : us[i] = f]]]

\* cache.local.save_dir_info(dir_info): the hash of the serialized manifest,
\* a directory hash.
SaveDirInfo(t) == [isdir |-> TRUE, value |-> t]

\* Mutant of IsIgnoreFile: the ignore-marker file is not looked for.
IsIgnoreFileNever(fi) == FALSE

\* DvcIgnore.DVCIGNORE_FILE == fi.name
IsIgnoreFile(fi) == Name(fi) = DVCIGNORE_FILE

\* The hashing call ends: it returns h, returns None or raises err.
EndHashCall(res, err, h) ==
    /\ pc' = "idle"
    /\ result' = res
    /\ raised' = err
    /\ retHash' = h

transferVars == <<srcIsDir, nMembers, preexisting, callNo, snap, waitq, observed,
                  lastSeen, prevResult, dest, tmpfs, dirs, treeVars, callVars>>
hashFsVars == <<present, dirPresent, ver>>
poolVars == <<units, fut, ferr, ustep, queue, hres, firstFailed>>

\* A call of get_hash(path_info) or get_dir_hash(path_info) is made.
HashCall ==
    /\ session = "hashing"
    /\ pc = "idle"
    /\ hCalls < MaxHashCalls
    /\ \E op \in {"get_hash", "get_dir_hash"}, t \in HashLocs :
        /\ (op = "get_dir_hash" => t = DataRoot)
        /\ hOp' = op
        /\ hTarget' = t
        /\ pc' = IF op = "get_hash" THEN "gh_exists" ELSE "gd_walk"
    /\ hCalls' = hCalls + 1
    /\ walk' = <<>>
    /\ nested' = FALSE
    /\ hit' = FALSE
    /\ hinfo' = NoHash
    /\ trie' = {}
    /\ ri' = 0
    /\ ci' = 0
    /\ nHashed' = 0
    /\ deletedDuring' = FALSE
    /\ retHash' = NoHash
    /\ prevResult' = result
    /\ result' = "none"
    /\ raised' = NoErr
    /\ exc' = NoErr
    /\ units' = <<>>
    /\ queue' = <<>>
    /\ fut' = [u \in AllUnits |-> "none"]
    /\ ferr' = [u \in AllUnits |-> NoErr]
    /\ ustep' = [u \in AllUnits |-> "-"]
    /\ hres' = [u \in HashFiles |-> NoHash]
    /\ firstFailed' = <<>>
    /\ UNCHANGED <<session, jobs, failing, stateKind, hashFsVars, stateDb,
                   cacheStore, dirInfoSet, served, runs, envOps, lastEnv, srcIsDir,
                   nMembers, preexisting, callNo, snap, waitq, observed, lastSeen,
                   dest, tmpfs, dirs, treeVars, callVars, gcVars>>

\* Mutant of ArtifactLost: the cache-store is not asked for the manifest.
ArtifactLostIgnored(h) == FALSE

\* not self.cache.tree.exists(self.cache.tree.hash_to_path_info(value))
ArtifactLost(h) == h \notin cacheStore

\* Mutant of Lookup: the fingerprint cache is not consulted.
LookupNever(l) == NoHash

\* The entry of the fingerprint cache get_hash goes on with: a directory hash
\* whose manifest the cache-store has lost is dropped.
Lookup(l) ==
    LET h == StateGet(l) IN
    IF Truthy(h) /\ h.isdir /\ ArtifactLost(h) THEN NoHash ELSE h

\* if not self.exists(path_info): return None
GetHashExists ==
    /\ pc = "gh_exists"
    /\ IF ~Exists(hTarget)
       THEN EndHashCall("absent", NoErr, NoHash)
       ELSE /\ pc' = "gh_lookup"
            /\ UNCHANGED <<result, raised, retHash>>
    /\ UNCHANGED <<session, walk, jobs, failing, stateKind, hashFsVars, stateDb,
                   cacheStore, dirInfoSet, hOp, hTarget, nested, hit, hinfo, trie,
                   ri, ci, nHashed, served, runs, hCalls, envOps, lastEnv,
                   deletedDuring, exc, poolVars, transferVars, gcVars>>

\* get_hash from the answer of the fingerprint cache on: a usable entry is
\* returned (a directory hash is registered with cache.set_dir_info first);
\* otherwise the hash is computed.
GetHashLookup ==
    /\ pc = "gh_lookup"
    /\ IF Truthy(Lookup(hTarget))
       THEN /\ EndHashCall("ok", NoErr, Lookup(hTarget))
            /\ hit' = TRUE
            /\ hinfo' = Lookup(hTarget)
            /\ dirInfoSet' = IF Lookup(hTarget).isdir
                             THEN dirInfoSet \cup {Lookup(hTarget)}
                             ELSE dirInfoSet
            /\ served' = IF IsDir(hTarget) THEN served
                         ELSE [served EXCEPT ![hTarget] = @ + 1]
            /\ nested' = nested
       ELSE /\ pc' = IF IsDir(hTarget) THEN "gd_walk" ELSE "gh_file"
            /\ nested' = IsDir(hTarget)
            /\ UNCHANGED <<hit, hinfo, dirInfoSet, served, result, raised, retHash>>
    /\ UNCHANGED <<session, walk, jobs, failing, stateKind, hashFsVars, stateDb,
                   cacheStore, hOp, hTarget, trie, ri, ci, nHashed, runs, hCalls,
                   envOps, lastEnv, deletedDuring, exc, poolVars, transferVars, gcVars>>

\* hash_info = self.get_file_hash(path_info): the backend returns the hash of
\* the file's content, or raises.
GetFileHash ==
    /\ pc = "gh_file"
    /\ nHashed' = nHashed + 1
    /\ IF hTarget \in failing \/ ~Exists(hTarget)
       THEN /\ EndHashCall("error", HashError(hTarget), NoHash)
            /\ UNCHANGED <<hinfo, runs>>
       ELSE /\ hinfo' = FileHashOf(hTarget)
            /\ runs' = [runs EXCEPT ![hTarget] = @ + 1]
            /\ pc' = "gh_check"
            /\ UNCHANGED <<result, raised, retHash>>
    /\ UNCHANGED <<session, walk, jobs, failing, stateKind, hashFsVars, stateDb,
                   cacheStore, dirInfoSet, hOp, hTarget, nested, hit, trie, ri, ci,
                   served, hCalls, envOps, lastEnv, deletedDuring, exc, poolVars,
                   transferVars, gcVars>>

\* Mutant of MaySave: the location is not looked at again.
MaySaveUnchecked(l, h) == Truthy(h)

\* if hash_info and self.exists(path_info)
MaySave(l, h) == Truthy(h) /\ Exists(l)

\* get_hash after the computation: the entry is saved only if the location
\* still exists; otherwise the hash is returned without being saved.
GetHashRecheck ==
    /\ pc = "gh_check"
    /\ IF MaySave(hTarget, hinfo)
       THEN /\ pc' = "gh_save"
            /\ UNCHANGED <<result, raised, retHash, served>>
       ELSE /\ EndHashCall("ok", NoErr, hinfo)
            /\ served' = IF IsDir(hTarget) THEN served
                         ELSE [served EXCEPT ![hTarget] = @ + 1]
    /\ UNCHANGED <<session, walk, jobs, failing, stateKind, hashFsVars, stateDb,
                   cacheStore, dirInfoSet, hOp, hTarget, nested, hit, hinfo, trie,
                   ri, ci, nHashed, runs, hCalls, envOps, lastEnv, deletedDuring, exc,
                   poolVars, transferVars, gcVars>>

\* self.state.save(path_info, hash_info); return hash_info
GetHashSave ==
    /\ pc = "gh_save"
    /\ stateDb' = StateSave(hTarget, hinfo)
    /\ EndHashCall("ok", NoErr, hinfo)
    /\ served' = IF IsDir(hTarget) THEN served
                 ELSE [served EXCEPT ![hTarget] = @ + 1]
    /\ UNCHANGED <<session, walk, jobs, failing, stateKind, hashFsVars, cacheStore,
                   dirInfoSet, hOp, hTarget, nested, hit, hinfo, trie, ri, ci,
                   nHashed, runs, hCalls, envOps, lastEnv, deletedDuring, exc, poolVars,
                   transferVars, gcVars>>

\* The checksum a checksum-bearing listing carries for a file.
ListedHash(f) == FileHashOf(f)

\* _iter_hashes of a tree whose listing carries checksums begins: ls returns
\* an iterator over the entries of the listing, which it will yield in some
\* order.
CollectLs ==
    /\ pc = "gd_walk"
    /\ detail
    /\ \E order \in Perms(present) :
          /\ walk' = order
          /\ pc' = IF order = <<>> THEN "gd_collect" ELSE "gd_ls"
    /\ UNCHANGED <<session, jobs, failing, stateKind, hashFsVars, stateDb,
                   cacheStore, dirInfoSet, hOp, hTarget, nested, hit, hinfo, trie,
                   ri, ci, nHashed, served, runs, hCalls, envOps, lastEnv,
                   deletedDuring, exc, retHash, result, raised, poolVars,
                   transferVars, gcVars>>

\* One iteration of the loop over ls: the next entry is yielded with the
\* checksum listed for it to _collect_dir, which enters it into the manifest
\* or, if it is the ignore-marker file, ends the call; nothing is looked up
\* or computed.  Of a file deleted in the meantime the backend decides: a
\* listing taken before still yields it, one read as it goes has nothing
\* more to yield.
LsNext ==
    /\ pc = "gd_ls"
    /\ walk # <<>>
    /\ \/ /\ walk' = Tail(walk)
          /\ IF IsIgnoreFile(Head(walk))
             THEN /\ EndHashCall("error",
                         DvcIgnoreInCollectedDirError(Parent(Head(walk))), NoHash)
                  /\ trie' = trie
             ELSE /\ trie' = TriePut(trie, Head(walk), ListedHash(Head(walk)))
                  /\ pc' = IF Tail(walk) = <<>> THEN "gd_collect" ELSE "gd_ls"
                  /\ UNCHANGED <<result, raised, retHash>>
       \/ /\ ~Exists(Head(walk))
          /\ walk' = <<>>
          /\ pc' = "gd_collect"
          /\ UNCHANGED <<trie, result, raised, retHash>>
    /\ UNCHANGED <<session, jobs, failing, stateKind, hashFsVars, stateDb,
                   cacheStore, dirInfoSet, hOp, hTarget, nested, hit, hinfo, ri, ci,
                   nHashed, served, runs, hCalls, envOps, lastEnv, deletedDuring, exc,
                   poolVars, transferVars, gcVars>>

\* _iter_hashes of any other tree begins: walk_files returns a generator over
\* the files, which it will yield in some order.
CollectWalk ==
    /\ pc = "gd_walk"
    /\ ~detail
    /\ \E order \in Perms(present) : walk' = order
    /\ pc' = "gd_next"
    /\ UNCHANGED <<session, jobs, failing, stateKind, hashFsVars, stateDb,
                   cacheStore, dirInfoSet, hOp, hTarget, nested, hit, hinfo, trie,
                   ri, ci, nHashed, served, runs, hCalls, envOps, lastEnv,
                   deletedDuring, exc, retHash, result, raised, poolVars,
                   transferVars, gcVars>>

\* The loop over walk_files advances the generator: the next file is
\* yielded.  Of a file deleted in the meantime the backend decides: a
\* generator that listed it before still yields it, one that reads the
\* directory as it goes has nothing more to yield.
WalkNext ==
    /\ pc = "gd_next"
    /\ walk # <<>>
    /\ \/ /\ pc' = "gd_get"
          /\ walk' = walk
       \/ /\ ~Exists(Head(walk))
          /\ walk' = <<>>
          /\ pc' = pc
    /\ UNCHANGED <<session, jobs, failing, stateKind, hashFsVars, stateDb,
                   cacheStore, dirInfoSet, hOp, hTarget, nested, hit, hinfo, trie,
                   ri, ci, nHashed, served, runs, hCalls, envOps, lastEnv,
                   deletedDuring, exc, retHash, result, raised, poolVars,
                   transferVars, gcVars>>

\* The body of the loop for the file yielded: state.get(file_info); a file
\* with an entry is yielded to _collect_dir, which enters it into the
\* manifest or, if it is the ignore-marker file, ends the call; a file
\* without one is appended to file_infos.
CollectStateGet ==
    /\ pc = "gd_get"
    /\ walk' = Tail(walk)
    /\ LET f == Head(walk)
           h == StateGet(f)
       IN
        IF Truthy(h)
        THEN IF IsIgnoreFile(f)
             THEN /\ EndHashCall("error", DvcIgnoreInCollectedDirError(Parent(f)), NoHash)
                  /\ UNCHANGED <<trie, units>>
             ELSE /\ trie' = TriePut(trie, f, h)
                  /\ pc' = "gd_next"
                  /\ UNCHANGED <<units, result, raised, retHash>>
        ELSE /\ units' = Append(units, f)
             /\ pc' = "gd_next"
             /\ UNCHANGED <<trie, result, raised, retHash>>
    /\ UNCHANGED <<session, jobs, failing, stateKind, hashFsVars, stateDb,
                   cacheStore, dirInfoSet, hOp, hTarget, nested, hit, hinfo, ri, ci,
                   nHashed, served, runs, hCalls, envOps, lastEnv, deletedDuring, exc,
                   fut, ferr, ustep, queue, hres, firstFailed, transferVars, gcVars>>

\* The generator is exhausted: _calculate_hashes(file_infos) submits one
\* get_file_hash per file to a new executor.
CalcHashesSubmit ==
    /\ pc = "gd_next"
    /\ walk = <<>>
    /\ queue' = units
    /\ fut' = [u \in AllUnits |-> IF u \in UnitSet THEN "pending" ELSE "none"]
    /\ firstFailed' = <<>>
    /\ ri' = 1
    /\ pc' = "map"
    /\ UNCHANGED <<session, walk, jobs, failing, stateKind, hashFsVars, stateDb,
                   cacheStore, dirInfoSet, hOp, hTarget, nested, hit, hinfo, trie, ci,
                   nHashed, served, runs, hCalls, envOps, lastEnv, deletedDuring, exc,
                   retHash, result, raised, units, ferr, ustep, hres, transferVars,
                   gcVars>>

\* A worker runs get_file_hash for its file.
HashUnitRun(u) ==
    /\ fut[u] = "running"
    /\ ustep[u] = "hash"
    /\ IF u \in failing \/ ~Exists(u)
       THEN /\ fut' = [fut EXCEPT ![u] = "failed"]
            /\ ferr' = [ferr EXCEPT ![u] = HashError(u)]
            /\ firstFailed' = IF firstFailed = <<>> THEN u ELSE firstFailed
            /\ hres' = hres
       ELSE /\ fut' = [fut EXCEPT ![u] = "done"]
            /\ hres' = [hres EXCEPT ![u] = FileHashOf(u)]
            /\ UNCHANGED <<ferr, firstFailed>>
    /\ ustep' = [ustep EXCEPT ![u] = "-"]
    /\ UNCHANGED <<session, walk, jobs, failing, stateKind, hashFsVars, stateDb,
                   cacheStore, dirInfoSet, hOp, hTarget, nested, hit, hinfo, trie,
                   ri, ci, nHashed, served, runs, hCalls, envOps, lastEnv, deletedDuring,
                   retHash, pc, result, raised, exc, units, queue, transferVars, gcVars>>

\* Mutant of MapRemaining: the result iterator cancels nothing.
MapRemainingNone(i, n) == {}

\* The futures executor.map's result iterator has not taken yet when it is at
\* the i-th of n: those its finally clause cancels.
MapRemaining(i, n) == (i + 1)..n

\* dict(zip(file_infos, hash_infos)) takes the next result of executor.map,
\* in submission order: it waits for that future; a failure ends the
\* iteration, whose finally clause cancels the futures not yet taken.
MapNext ==
    /\ pc = "map"
    /\ IF ri > Len(units)
       THEN /\ pc' = "exit_ok"
            /\ UNCHANGED <<ri, ci, exc>>
       ELSE /\ fut[units[ri]] \in {"done", "failed"}
            /\ IF fut[units[ri]] = "done"
               THEN /\ ri' = ri + 1
                    /\ UNCHANGED <<pc, ci, exc>>
               ELSE /\ exc' = RaisedFrom(ExceptionOf(units[ri]))
                    /\ ci' = Len(units)
                    /\ pc' = IF MapRemaining(ri, Len(units)) = {}
                             THEN "exit_err" ELSE "mapcancel"
                    /\ ri' = ri
    /\ UNCHANGED <<session, walk, jobs, failing, stateKind, hashFsVars, stateDb,
                   cacheStore, dirInfoSet, hOp, hTarget, nested, hit, hinfo, trie,
                   nHashed, served, runs, hCalls, envOps, lastEnv, deletedDuring, retHash,
                   result, raised, poolVars, transferVars, gcVars>>

\* One iteration of "for future in fs: future.cancel()" in executor.map's
\* result iterator: the futures not yet taken, the last submitted first.
MapCancelEntry ==
    /\ pc = "mapcancel"
    /\ fut' = [fut EXCEPT ![units[ci]] = CancelOutcome(fut[units[ci]])]
    /\ ci' = ci - 1
    /\ pc' = IF (ci - 1) \in MapRemaining(ri, Len(units))
             THEN "mapcancel" ELSE "exit_err"
    /\ UNCHANGED <<session, walk, jobs, failing, stateKind, hashFsVars, stateDb,
                   cacheStore, dirInfoSet, hOp, hTarget, nested, hit, hinfo, trie,
                   ri, nHashed, served, runs, hCalls, envOps, lastEnv, deletedDuring,
                   retHash, result, raised, exc, units, ferr, ustep, queue, hres, firstFailed,
                   transferVars, gcVars>>

\* The with-block of _calculate_hashes is left: with the results, or with the
\* exception, which leaves get_dir_hash and get_hash.
CalcHashesExit ==
    /\ session = "hashing"
    /\ pc \in {"exit_ok", "exit_err"}
    /\ ShutdownDone
    /\ IF pc = "exit_ok"
       THEN /\ pc' = "gd_collect"
            /\ UNCHANGED <<result, raised, retHash>>
       ELSE EndHashCall("error", exc, NoHash)
    /\ UNCHANGED <<session, walk, jobs, failing, stateKind, hashFsVars, stateDb,
                   cacheStore, dirInfoSet, hOp, hTarget, nested, hit, hinfo, trie,
                   ri, ci, nHashed, served, runs, hCalls, envOps, lastEnv, deletedDuring,
                   exc, poolVars, transferVars, gcVars>>

\* _collect_dir over the computed hashes, then the rest of get_dir_hash: the
\* ignore-marker file ends the call with DvcIgnoreInCollectedDirError;
\* otherwise the manifest is completed, save_dir_info persists it and the
\* directory hash is returned (to get_hash, when get_hash made the call).
CollectDir ==
    /\ pc = "gd_collect"
    /\ IF \E i \in 1..Len(units) : IsIgnoreFile(units[i])
       THEN /\ EndHashCall("error",
                   DvcIgnoreInCollectedDirError(
                       Parent(units[CHOOSE i \in 1..Len(units) : IsIgnoreFile(units[i])])),
                   NoHash)
            /\ UNCHANGED <<trie, hinfo, cacheStore>>
       ELSE LET full == TriePutAll(trie, units, ZipResults(units, hres))
            IN
            /\ trie' = full
            /\ hinfo' = SaveDirInfo(full)
            /\ cacheStore' = cacheStore \cup {SaveDirInfo(full)}
            /\ IF nested
               THEN /\ pc' = "gh_check"
                    /\ UNCHANGED <<result, raised, retHash>>
               ELSE EndHashCall("ok", NoErr, SaveDirInfo(full))
    /\ UNCHANGED <<session, walk, jobs, failing, stateKind, hashFsVars, stateDb,
                   dirInfoSet, hOp, hTarget, nested, hit, ri, ci, nHashed, served,
                   runs, hCalls, envOps, lastEnv, deletedDuring, exc, poolVars,
                   transferVars, gcVars>>

\* ---------------------------------------------------------- the environment
\* The positions of get_hash between its first look at the location and its
\* second one, after the computation.
Computing ==
    hOp = "get_hash" /\
    pc \in {"gh_lookup", "gh_file", "gd_walk", "gd_ls", "gd_next", "gd_get", "map", "mapcancel",
            "exit_ok", "exit_err", "gd_collect", "gh_check"}

\* A file's content is changed between two calls.
EnvModify ==
    /\ session = "hashing"
    /\ pc = "idle"
    /\ envOps < MaxEnvOps
    /\ \E f \in present :
        /\ ver' = [ver EXCEPT ![f] = @ + 1]
        /\ served' = [served EXCEPT ![f] = 0]
        /\ runs' = [runs EXCEPT ![f] = 0]
    /\ envOps' = envOps + 1
    /\ lastEnv' = "modify"
    /\ UNCHANGED <<session, walk, jobs, failing, stateKind, present, dirPresent, stateDb,
                   cacheStore, dirInfoSet, hOp, hTarget, nested, hit, hinfo, trie,
                   ri, ci, nHashed, hCalls, deletedDuring, retHash, pc, result,
                   raised, exc, poolVars, transferVars, gcVars>>

\* A file, or the directory with all its files, is deleted: any of them
\* between two calls, the location being hashed at any moment of the call.
EnvDelete ==
    /\ session = "hashing"
    /\ envOps < MaxEnvOps
    /\ \E l \in HashLocs :
        /\ Exists(l)
        /\ (pc = "idle" \/ l = hTarget)
        /\ present' = IF l = DataRoot THEN {} ELSE present \ {l}
        /\ dirPresent' = IF l = DataRoot THEN FALSE ELSE dirPresent
        /\ deletedDuring' = (deletedDuring \/ (Computing /\ l = hTarget))
    /\ envOps' = envOps + 1
    /\ lastEnv' = "delete"
    /\ UNCHANGED <<session, walk, jobs, failing, stateKind, ver, stateDb, cacheStore,
                   dirInfoSet, hOp, hTarget, nested, hit, hinfo, trie, ri, ci,
                   nHashed, served, runs, hCalls, retHash, pc, result, raised, exc,
                   poolVars, transferVars, gcVars>>

\* A manifest is removed from the cache-store behind the engine's back.
EnvEvict ==
    /\ session = "hashing"
    /\ pc = "idle"
    /\ envOps < MaxEnvOps
    /\ \E h \in cacheStore : cacheStore' = cacheStore \ {h}
    /\ envOps' = envOps + 1
    /\ lastEnv' = "evict"
    /\ UNCHANGED <<session, walk, jobs, failing, stateKind, hashFsVars, stateDb,
                   dirInfoSet, hOp, hTarget, nested, hit, hinfo, trie, ri, ci,
                   nHashed, served, runs, hCalls, deletedDuring, retHash, pc,
                   result, raised, exc, poolVars, transferVars, gcVars>>


UnitStep ==
    \E u \in AllUnits :
        \/ UnitMakedirs(u)
        \/ UnitWrite(u)
        \/ UnitWriteDone(u)
        \/ UnitFail(u)
        \/ UnitMove(u)

MainStep ==
    \/ Download
    \/ AsCompletedBegin
    \/ ObserveNext
    \/ LoopEmpty
    \/ CancelEntry
    \/ ExecutorExit
    \/ DownloadFileEnd

WorkerStep ==
    \/ WorkerTake
    \/ \E u \in AllUnits : WorkItemRun(u)

RunNext ==
    \/ MainStep
    \/ WorkerStep
    \/ UnitStep

Next ==
    \/ RunNext
    \/ Interrupt

Spec == Init /\ [][Next]_vars

\* The hashing engine: a directory of up to MaxMembers files, the
\* ignore-marker file possibly among them, hashed through a tree with either
\* state.
HashInit ==
    /\ session = "hashing"
    /\ GcIdle
    /\ CallIdle
    /\ prims = {"_download"}
    /\ scheme = "s3"
    /\ fromScheme = "s3"
    /\ toScheme = "local"
    /\ detail \in BOOLEAN
    /\ stateKind \in {"noop", "real"}
    /\ \E n \in 0..MaxMembers, marker \in SUBSET {MarkerFile} :
          /\ (n = MaxMembers => marker = {})
          /\ present = {HashFile(i) : i \in 1..n} \cup marker
    /\ dirPresent = TRUE
    /\ ver = [f \in HashFiles |-> 0]
    /\ stateDb = [l \in HashLocs |-> [has |-> FALSE, fp |-> {}, hash |-> NoHash]]
    /\ cacheStore = {}
    /\ dirInfoSet = {}
    /\ hOp = "none"
    /\ hTarget = DataRoot
    /\ nested = FALSE
    /\ hit = FALSE
    /\ hinfo = NoHash
    /\ trie = {}
    /\ ri = 0
    /\ nHashed = 0
    /\ served = [f \in HashFiles |-> 0]
    /\ runs = [f \in HashFiles |-> 0]
    /\ hCalls = 0
    /\ envOps = 0
    /\ lastEnv = "none"
    /\ deletedDuring = FALSE
    /\ retHash = NoHash
    /\ hres = [u \in HashFiles |-> NoHash]
    /\ firstFailed = <<>>
    /\ walk = <<>>
    /\ srcIsDir = FALSE
    /\ nMembers = 0
    /\ jobs \in 1..MaxJobs
    /\ preexisting = FALSE
    /\ failing \in SUBSET present
    /\ pc = "idle"
    /\ callNo = 0
    /\ units = <<>>
    /\ fut = [u \in AllUnits |-> "none"]
    /\ ferr = [u \in AllUnits |-> NoErr]
    /\ ustep = [u \in AllUnits |-> "-"]
    /\ queue = <<>>
    /\ snap = {}
    /\ waitq = <<>>
    /\ observed = {}
    /\ lastSeen = <<>>
    /\ ci = 0
    /\ exc = NoErr
    /\ result = "none"
    /\ prevResult = "none"
    /\ raised = NoErr
    /\ dest = [d \in DestLocs |-> NoObj]
    /\ tmpfs = [t \in TmpLocs |-> NoObj]
    /\ dirs = {}

HashMainStep ==
    \/ HashCall
    \/ GetHashExists
    \/ GetHashLookup
    \/ GetFileHash
    \/ GetHashRecheck
    \/ GetHashSave
    \/ CollectLs
    \/ LsNext
    \/ CollectWalk
    \/ WalkNext
    \/ CollectStateGet
    \/ CalcHashesSubmit
    \/ MapNext
    \/ MapCancelEntry
    \/ CalcHashesExit
    \/ CollectDir

HashUnitStep == \E u \in HashFiles : HashUnitRun(u)

EnvStep ==
    \/ EnvModify
    \/ EnvDelete
    \/ EnvEvict

HashNext ==
    \/ HashMainStep
    \/ WorkerStep
    \/ HashUnitStep
    \/ EnvStep

HashSpec == HashInit /\ [][HashNext]_vars

\* Both engines, with the threads of a process that is not interrupted
\* being scheduled for as long as they can run, on files nobody else touches.
LiveNext ==
    \/ RunNext
    \/ HashMainStep
    \/ HashUnitStep

LiveSpec ==
    /\ (Init \/ HashInit)
    /\ [][LiveNext]_vars
    /\ WF_vars(MainStep)
    /\ WF_vars(HashMainStep)
    /\ WF_vars(WorkerStep)
    /\ WF_vars(UnitStep)
    /\ WF_vars(HashUnitStep)

\* ------------------------------------- one transfer call on any tree
\* A single object is downloaded or uploaded by a tree of any scheme, with
\* any set of primitives, between locations of any schemes.
DispatchInit ==
    /\ session = "transfer"
    /\ HashIdle
    /\ GcIdle
    /\ CallIdle
    /\ prims \in SUBSET Primitives
    /\ scheme \in TreeSchemes
    /\ fromScheme \in Schemes
    /\ toScheme \in Schemes
    /\ detail = FALSE
    /\ srcIsDir = FALSE
    /\ nMembers = 0
    /\ jobs = 1
    /\ preexisting \in BOOLEAN
    /\ failing \in SUBSET {FromRoot}
    /\ pc = "idle"
    /\ callNo = 0
    /\ units = <<>>
    /\ fut = [u \in AllUnits |-> "none"]
    /\ ferr = [u \in AllUnits |-> NoErr]
    /\ ustep = [u \in AllUnits |-> "-"]
    /\ queue = <<>>
    /\ snap = {}
    /\ waitq = <<>>
    /\ observed = {}
    /\ lastSeen = <<>>
    /\ ci = 0
    /\ exc = NoErr
    /\ result = "none"
    /\ prevResult = "none"
    /\ raised = NoErr
    /\ dest = [d \in DestLocs |-> IF preexisting THEN OldObj ELSE NoObj]
    /\ tmpfs = [t \in TmpLocs |-> NoObj]
    /\ dirs = {}

DispatchNext ==
    \/ Download
    \/ DownloadRejected
    \/ DownloadCopy
    \/ Upload
    \/ UploadFobj
    \/ UploadWrite
    \/ UploadWriteDone
    \/ UploadFail
    \/ UnitStep
    \/ DownloadFileEnd
    \/ Interrupt

DispatchSpec == DispatchInit /\ [][DispatchNext]_vars

\* ------------------------------------------------- experiments gc
\* The revisions repo.brancher yields for the flags handed to it, and the
\* revision of the workspace.
BranchRevs == {"rev1"}
TagRevs == {"rev2"}
CommitRevs == Revs
HeadRev == "rev1"

Brancher(all_branches, all_tags, all_commits) ==
    (IF all_branches THEN BranchRevs ELSE {})
        \cup (IF all_tags THEN TagRevs ELSE {})
        \cup (IF all_commits THEN CommitRevs ELSE {})

\* keep_revs as gc computes it.
KeepRevs(all_branches, all_tags, all_commits, workspace) ==
    Brancher(all_branches, all_tags, all_commits)
        \cup (IF workspace THEN {HeadRev} ELSE {})

\* Mutant of EarlyReturn: gc goes on with an empty keep_revs.
EarlyReturnNever(keep) == FALSE

\* if not keep_revs: return 0
EarlyReturn(keep) == keep = {}

\* exp_refs(repo.scm): the experiment references there are.
ExpRefs == {r \in RefIds : refs[r] # "none"}

\* repo.scm.get_ref(str(ref_info)): every reference is at a commit of its
\* own, named here by the reference.
RefSha(r) == r

\* Mutant of Doomed: no reference is removed.
DoomedNever(r) == FALSE

\* ref_info.baseline_sha not in keep_revs
Doomed(r) == refs[r] \notin keep_revs

\* The pointers after the three conditional remove_ref calls made for the
\* removed reference r.
ClearPointers(r) ==
    [n \in ExecNames |->
        IF n = EXEC_BRANCH
        THEN IF exec_refs[n] # 0 THEN 0 ELSE ptrs[n]
        ELSE IF exec_refs[n] # 0 /\ exec_refs[n] = RefSha(r) THEN 0 ELSE ptrs[n]]

\* if not queued or entry.baseline_rev not in keep_revs
Selected(e) == ~queued \/ e.baseline \notin keep_revs

\* delete_stashes: entry.index of the selected entries, entry 0 first.
DeleteStashes ==
    LET idx == [i \in 1..Len(stash) |-> i - 1] IN
        SelectSeq(idx, LAMBDA i : Selected(stash[i + 1]))

Range(f) == {f[i] : i \in DOMAIN f}

RECURSIVE SortedReverse(_)
SortedReverse(S) ==
    IF S = {} THEN <<>>
    ELSE LET m == CHOOSE x \in S : \A y \in S : y <= x IN
            <<m>> \o SortedReverse(S \ {m})

\* Mutant of DropOrder: the entries are dropped in the order collected.
DropOrderCollected(ds) == ds

\* sorted(delete_stashes, reverse=True)
DropOrder(ds) == SortedReverse(Range(ds))

\* stash.drop(index): the entry at index is gone and every later entry moves
\* up by one.
Drop(st, index) ==
    IF index + 1 \in 1..Len(st)
    THEN [i \in 1..(Len(st) - 1) |-> IF i < index + 1 THEN st[i] ELSE st[i + 1]]
    ELSE st

RECURSIVE DropAll(_, _)
DropAll(st, order) ==
    IF order = <<>> THEN st
    ELSE DropAll(Drop(st, Head(order)), Tail(order))

engineVars == <<hashVars, inputVars, failing, pc, callNo, runVars, result,
                prevResult, raised, fsVars, callVars>>
gcState == <<refs, ptrs, stash>>
gcBefore == <<refs0, ptrs0, stash0>>

\* gc(repo, all_branches, all_tags, all_commits, workspace, queued) up to
\* the first loop.
GcCall ==
    /\ session = "gc"
    /\ gcPc = "idle"
    /\ gcRet = -1
    /\ \E all_branches \in BOOLEAN, all_tags \in BOOLEAN, all_commits \in BOOLEAN,
          workspace \in BOOLEAN, q \in BOOLEAN :
        /\ keep_revs' = KeepRevs(all_branches, all_tags, all_commits, workspace)
        /\ queued' = q
    /\ IF EarlyReturn(keep_revs')
       THEN /\ gcPc' = "done"
            /\ gcRet' = 0
            /\ UNCHANGED <<exec_refs, todo>>
       ELSE /\ gcPc' = "refs"
            /\ gcRet' = gcRet
            /\ exec_refs' = ptrs
            /\ todo' = ExpRefs
    /\ UNCHANGED <<engineVars, gcState, gcBefore,
                   delete_stashes, removed>>

\* One iteration of the loop over exp_refs.
GcRef ==
    /\ gcPc = "refs"
    /\ todo # {}
    /\ LET r == CHOOSE x \in todo : \A y \in todo : x <= y IN
        /\ todo' = todo \ {r}
        /\ IF Doomed(r)
           THEN /\ ptrs' = ClearPointers(r)
                /\ refs' = [refs EXCEPT ![r] = "none"]
                /\ removed' = removed + 1
           ELSE UNCHANGED <<ptrs, refs, removed>>
    /\ UNCHANGED <<engineVars, stash, gcBefore, keep_revs,
                   queued, exec_refs, delete_stashes, gcPc, gcRet>>

\* The loop over the stash, the drops and the return.
GcStash ==
    /\ gcPc = "refs"
    /\ todo = {}
    /\ delete_stashes' = DeleteStashes
    /\ stash' = DropAll(stash, DropOrder(DeleteStashes))
    /\ removed' = removed + Len(DeleteStashes)
    /\ gcRet' = removed'
    /\ gcPc' = "done"
    /\ UNCHANGED <<engineVars, refs, ptrs, gcBefore,
                   keep_revs, queued, exec_refs, todo>>

StashSeqs ==
    UNION {[1..n -> Revs] : n \in 0..MaxStash}

\* A repository with experiment references, pointers and queued
\* experiments, before gc is called.
GcInit ==
    /\ session = "gc"
    /\ HashIdle
    /\ CallIdle
    /\ DownloadReady
    /\ refs \in [RefIds -> Revs]
    /\ ptrs \in [ExecNames -> 0..(MaxRefs + 1)]
    /\ \E b \in StashSeqs :
          stash = [i \in DOMAIN b |-> [id |-> i, baseline |-> b[i]]]
    /\ refs0 = refs
    /\ ptrs0 = ptrs
    /\ stash0 = stash
    /\ keep_revs = {}
    /\ queued = FALSE
    /\ exec_refs = [n \in ExecNames |-> 0]
    /\ todo = {}
    /\ delete_stashes = <<>>
    /\ removed = 0
    /\ gcPc = "idle"
    /\ gcRet = -1
    /\ srcIsDir = FALSE
    /\ nMembers = 0
    /\ jobs = 1
    /\ preexisting = FALSE
    /\ failing = {}
    /\ pc = "idle"
    /\ callNo = 0
    /\ units = <<>>
    /\ fut = [u \in AllUnits |-> "none"]
    /\ ferr = [u \in AllUnits |-> NoErr]
    /\ ustep = [u \in AllUnits |-> "-"]
    /\ queue = <<>>
    /\ snap = {}
    /\ waitq = <<>>
    /\ observed = {}
    /\ lastSeen = <<>>
    /\ ci = 0
    /\ exc = NoErr
    /\ result = "none"
    /\ prevResult = "none"
    /\ raised = NoErr
    /\ dest = [d \in DestLocs |-> NoObj]
    /\ tmpfs = [t \in TmpLocs |-> NoObj]
    /\ dirs = {}

GcNext == GcCall \/ GcRef \/ GcStash

GcSpec == GcInit /\ [][GcNext]_vars

\* ------------------------------------------------------------------ claims
IndexOf(u) == CHOOSE i \in 1..Len(units) : units[i] = u

DirCallEnded == srcIsDir /\ pc = "idle" /\ callNo > 0

\* C1: a directory download returns normally only if every member listed
\* under the source finished its transfer successfully and its object is in
\* place; a call with a failing member ends with an error.
C1_SuccessOnlyIfAllDone ==
    DirCallEnded =>
        /\ result \in {"ok", "error"}
        /\ (result = "ok") <=> (\A u \in UnitSet : fut[u] = "done")
        /\ (result = "ok") =>
              \A u \in UnitSet : dest[DestOf(u, TRUE)] = FullOf(u)
        /\ (failing # {}) => (result = "error")

\* A call over several members that ended with an error although some
\* members did finish.
C1_Witness ==
    /\ DirCallEnded
    /\ result = "error"
    /\ Len(units) >= 3
    /\ Cardinality({u \in UnitSet : fut[u] = "done"}) >= 2

NoStartAfterTrigger ==
    pc \in {"cancel", "exit_err"} =>
        (\A u \in AllUnits : fut[u] # "running" => fut'[u] # "running")

\* C2 as stated: from the moment the caller has seen a failure and begun to
\* cancel, no member that is not running starts to run.
C2_NoStartOnceTriggered == [][NoStartAfterTrigger]_vars

NoStartAfterCancel ==
    /\ \A u \in UnitSet :
          (\/ pc = "exit_err"
           \/ pc = "cancel" /\ IndexOf(u) < ci)
          => (fut[u] # "running" => fut'[u] # "running")
    /\ \A u \in UnitSet :
          fut[u] = "cancelled" => (fut'[u] = "cancelled" \/ pc = "idle")
    /\ \A u \in UnitSet :
          (fut[u] = "running" /\ pc \in {"cancel", "exit_err"})
          => fut'[u] \in {"running", "done", "failed"}

\* C2 as amended: a member whose future the cancel loop has reached never
\* starts, so none starts once the loop is over; a member the loop has not
\* reached yet may still start; cancel() leaves a running member running,
\* and it ends only by finishing or failing.
C2_NoStartOnceCancelled == [][NoStartAfterCancel]_vars

\* The cancel loop is over with one member cancelled and another one still
\* running.
C2_Witness ==
    /\ pc = "exit_err"
    /\ \E u \in UnitSet : fut[u] = "cancelled"
    /\ \E u \in UnitSet : fut[u] = "running"

\* C3: no destination ever holds a partly written object, not even when the
\* process is interrupted: a destination holds what it held before the call
\* or the complete object of the member mapped to it, partial data lives in
\* temporary files next to a member's destination only, and a member that
\* failed, was cancelled or did not run leaves its destination as it was.
C3_NoPartialAtDestination ==
    /\ \A d \in DestLocs :
          /\ dest[d].st # "part"
          /\ \/ dest[d] = InitialObj
             \/ \E u \in UnitSet : d = DestOf(u, srcIsDir) /\ dest[d] = FullOf(u)
    /\ \A t \in TmpLocs :
          tmpfs[t] # NoObj =>
              \E u \in UnitSet :
                  /\ t.base = DestOf(u, srcIsDir)
                  /\ tmpfs[t].of = u
                  /\ Parent(t.base) \in dirs
    /\ \A u \in UnitSet :
          (callNo = 1 /\ fut[u] \in {"pending", "cancelled", "failed"})
          => dest[DestOf(u, srcIsDir)] = InitialObj

\* The process was interrupted after a temporary file was written completely
\* and before it was moved, while another member had written a part.
C3_Witness ==
    /\ pc = "crashed"
    /\ \E u \in UnitSet :
          /\ ustep[u] = "mv"
          /\ tmpfs[TmpFname(DestOf(u, srcIsDir))] = FullOf(u)
          /\ dest[DestOf(u, srcIsDir)] = InitialObj
    /\ \E t \in TmpLocs : tmpfs[t].st = "part"

FailureSeen == \E u \in observed : fut[u] = "failed"

\* C4 as stated: the error of a failed directory download is a
\* PartialTransferFailure that carries the error of the first failure seen.
C4_RaisesPartialTransferFailure ==
    (DirCallEnded /\ result = "error") =>
        /\ raised.kind = "PartialTransferFailure"
        /\ raised.member = lastSeen

\* C4 as amended: the error of a failed directory download is the very
\* exception of the first member failure that as_completed handed to the
\* caller, not wrapped in any other error; every member seen before it had
\* succeeded, and what members in flight do afterwards changes neither the
\* error nor the failure of the call.
C4_FirstErrorVerbatim ==
    (srcIsDir /\ FailureSeen) =>
        /\ pc \in {"cancel", "exit_err", "idle", "crashed"}
        /\ fut[lastSeen] = "failed"
        /\ \A u \in observed \ {lastSeen} : fut[u] = "done"
        /\ exc = ferr[lastSeen]
        /\ exc = MemberError(lastSeen)
        /\ result # "ok"
        /\ (pc = "idle" => result = "error" /\ raised = exc)

\* A failed call after which a second member, in flight when the first
\* failure was seen, failed too, and a third one succeeded.
C4_Witness ==
    /\ DirCallEnded
    /\ result = "error"
    /\ \E u \in UnitSet : u # lastSeen /\ fut[u] = "failed" /\ raised # ferr[u]
    /\ \E u \in UnitSet : fut[u] = "done" /\ u \notin observed

\* No unit of the last call is waiting or running.
Quiescent ==
    /\ queue = <<>>
    /\ \A u \in AllUnits : fut[u] \in {"none", "done", "failed", "cancelled"}

\* C5: a call returns only when every unit it submitted has finished, failed
\* or been cancelled, and every call that was started returns.
C5_Synchronous ==
    /\ [](pc = "idle" => Quiescent)
    /\ (pc # "idle") ~> (pc = "idle")

\* A call came back with an error while holding finished, failed and
\* cancelled units.
C5_Witness ==
    /\ pc = "idle"
    /\ result = "error"
    /\ \E u \in UnitSet : fut[u] = "cancelled"
    /\ \E u \in UnitSet : fut[u] = "done"

\* C6: the download that follows a failed one, with the failure removed,
\* succeeds and leaves at each member's mapped destination the complete
\* object of that member, distinct members at distinct destinations, and
\* nothing else changed.
C6_RetrySucceeds ==
    (DirCallEnded /\ callNo = 2) =>
        /\ result = "ok"
        /\ \A u \in UnitSet : dest[DestOf(u, TRUE)] = FullOf(u)
        /\ \A u, v \in UnitSet : u # v => DestOf(u, TRUE) # DestOf(v, TRUE)
        /\ \A u \in UnitSet :
              DestOf(u, TRUE) = Join(ToRoot, RelativeTo(u, FromRoot))
        /\ \A d \in DestLocs :
              (\A u \in UnitSet : d # DestOf(u, TRUE)) => dest[d] = InitialObj

\* The retry succeeded for all members although the failed attempt had
\* moved one object into place and left a partial temporary file behind.
C6_Witness ==
    /\ DirCallEnded
    /\ callNo = 2
    /\ prevResult = "error"
    /\ result = "ok"
    /\ Len(units) >= 3
    /\ \E t \in TmpLocs : t.uuid = 1 /\ tmpfs[t].st = "part"

\* C7 as stated: whatever the tree's state is, the calls of get_hash that
\* returned a file's hash since the file last changed ran get_file_hash once.
C7_ComputedOnce ==
    \A f \in HashFiles : (pc = "idle" /\ served[f] >= 2) => runs[f] = 1

\* C7 as amended: on a tree whose state is a real fingerprint cache, the
\* calls of get_hash that returned a file's hash since the file last changed
\* ran get_file_hash once, in the first of them, the later ones returning the
\* cache's entry, and each returned the hash of the file's current content
\* (so the first call after a change computes again); on a tree with the
\* default StateNoop every such call ran get_file_hash.
C7_ComputedOnceWithRealState ==
    \A f \in HashFiles :
        pc = "idle" =>
            /\ stateKind = "real" => (served[f] >= 1 => runs[f] = 1)
            /\ stateKind = "noop" => runs[f] = served[f]
            /\ (hOp = "get_hash" /\ hTarget = f /\ result = "ok" /\ served[f] >= 1) =>
                  /\ retHash = FileHashOf(f)
                  /\ stateKind = "real" =>
                        /\ served[f] = 1 => (~hit /\ nHashed = 1)
                        /\ served[f] >= 2 => (hit /\ nHashed = 0)

\* The second call of get_hash on an unchanged file returned the cached hash.
C7_Witness ==
    /\ pc = "idle"
    /\ stateKind = "real"
    /\ hOp = "get_hash"
    /\ hTarget \in HashFiles
    /\ served[hTarget] = 2
    /\ runs[hTarget] = 1
    /\ hit
    /\ retHash = FileHashOf(hTarget)

DirEntryLostStep ==
    /\ (/\ pc = "gh_lookup"
        /\ pc' # pc
        /\ Exists(hTarget)
        /\ Truthy(StateGet(hTarget))
        /\ StateGet(hTarget).isdir) =>
            IF StateGet(hTarget) \in cacheStore
            THEN /\ pc' = "idle"
                 /\ result' = "ok"
                 /\ retHash' = StateGet(hTarget)
                 /\ hit'
                 /\ units' = units
                 /\ cacheStore' = cacheStore
            ELSE /\ pc' = "gd_walk"
                 /\ nested'
    /\ (/\ hOp = "get_hash"
        /\ IsDir(hTarget)
        /\ pc # "idle"
        /\ pc' = "idle"
        /\ result' = "ok") =>
            /\ retHash'.isdir
            /\ retHash' \in cacheStore'
            /\ ~hit' => retHash' = SaveDirInfo(trie)

\* C8: get_hash of a location whose cached directory hash has lost its
\* manifest in the cache-store does not return the entry but calls
\* get_dir_hash; the directory hash it returns is the recomputed one and its
\* manifest is in the cache-store again.  With the manifest in place the
\* cached hash is returned and nothing is computed or persisted.
C8_LostManifestRecomputed == [][DirEntryLostStep]_vars

\* The manifest was removed after a first get_hash of the directory; the
\* second one computed the directory hash again and persisted the manifest.
C8_Witness ==
    /\ pc = "idle"
    /\ stateKind = "real"
    /\ hOp = "get_hash"
    /\ hTarget = DataRoot
    /\ hCalls = 2
    /\ lastEnv = "evict"
    /\ result = "ok"
    /\ ~hit
    /\ Cardinality(trie) >= 2
    /\ retHash = stateDb[DataRoot].hash
    /\ retHash \in cacheStore

SaveOnlyIfStillThereStep ==
    /\ \A l \in HashLocs :
          stateDb'[l] # stateDb[l] =>
              /\ pc = "gh_save"
              /\ l = hTarget
              /\ Truthy(hinfo)
              /\ ~deletedDuring
              /\ stateDb'[l] = [has |-> TRUE, fp |-> Fingerprint(l), hash |-> hinfo]
    /\ (pc # "idle" /\ pc' = "idle" /\ result' \in {"absent", "error"}) =>
          stateDb' = stateDb
    /\ (pc' = "gh_save" /\ pc # "gh_save") => (Exists(hTarget) /\ Truthy(hinfo))

\* C9: the fingerprint cache changes only by get_hash saving the entry of
\* its own location, after a hash was computed and the location was found to
\* exist still; no entry is saved for a location deleted while its hash was
\* computed, for one that did not exist, or when the computation failed.
C9_SaveOnlyIfStillThere == [][SaveOnlyIfStillThereStep]_vars

\* A hash was computed and returned, but not saved, because the location was
\* deleted in the meantime.
C9_Witness ==
    /\ pc = "idle"
    /\ stateKind = "real"
    /\ hOp = "get_hash"
    /\ result = "ok"
    /\ Truthy(retHash)
    /\ deletedDuring
    /\ ~stateDb[hTarget].has

\* get_dir_hash is under way, called directly or by get_hash.
DirHashRunning ==
    pc \in {"gd_walk", "gd_ls", "gd_next", "gd_get", "map", "mapcancel", "exit_ok",
            "exit_err", "gd_collect"}

\* While the directory holds the ignore-marker file a directory hash persists
\* and saves nothing and does not return to get_hash; it ends with an error.
MarkerBlocksStep ==
    (DirHashRunning /\ MarkerFile \in present) =>
        /\ cacheStore' = cacheStore
        /\ stateDb' = stateDb
        /\ pc' \notin {"gh_check", "gh_save"}
        /\ pc' = "idle" => (result' = "error" /\ retHash' = NoHash)

\* A directory hash of a directory that is still there, holds no
\* ignore-marker file and no file whose hashing fails persists the manifest
\* and returns the directory hash.
NoMarkerStep ==
    (/\ pc = "gd_collect"
     /\ pc' # pc
     /\ ~nested
     /\ dirPresent
     /\ MarkerFile \notin present
     /\ failing \cap present = {}) =>
        /\ pc' = "idle"
        /\ result' = "ok"
        /\ retHash' \in cacheStore'
        /\ Cardinality(retHash'.value) = Cardinality(present)

MarkerAlwaysNamedStep ==
    (DirHashRunning /\ MarkerFile \in present /\ pc' = "idle") =>
        raised' = DvcIgnoreInCollectedDirError(Parent(MarkerFile))

\* C10 as stated: a directory hash over a directory that holds the
\* ignore-marker file always ends with DvcIgnoreInCollectedDirError naming
\* the marker's parent directory, with no manifest persisted, no hash
\* returned and nothing saved in the fingerprint cache; without the marker
\* the call succeeds.
C10_MarkerAlwaysNamed ==
    [][MarkerBlocksStep /\ NoMarkerStep /\ MarkerAlwaysNamedStep]_vars

MarkerNamedUnlessHashFailsStep ==
    (DirHashRunning /\ MarkerFile \in present /\ pc' = "idle") =>
        /\ \/ raised' = DvcIgnoreInCollectedDirError(Parent(MarkerFile))
           \/ /\ raised'.kind = "HashError"
              /\ raised'.member \in failing \cap UnitSet
              /\ fut[raised'.member] = "failed"
              /\ ~detail
              /\ ~Truthy(StateGet(MarkerFile))
        /\ (failing \cap present = {}) =>
              raised' = DvcIgnoreInCollectedDirError(Parent(MarkerFile))

\* C10 as amended: a directory hash over a directory that holds the
\* ignore-marker file ends with an error, no manifest persisted, no hash
\* returned, nothing saved in the fingerprint cache.  The error is
\* DvcIgnoreInCollectedDirError naming the marker's parent directory,
\* whether the marker's hash came from the listing, from the fingerprint
\* cache or had to be computed, except that on the walk-and-hash path with
\* the marker not in the fingerprint cache the failure of hashing a file
\* comes first and is the error raised.  Without the marker, and with no
\* file failing, the manifest is persisted and the directory hash returned.
C10_IgnoreMarkerRejected ==
    [][MarkerBlocksStep /\ NoMarkerStep /\ MarkerNamedUnlessHashFailsStep]_vars

\* get_dir_hash failed on the marker, the marker was deleted, and get_dir_hash
\* then succeeded.
C10_Witness ==
    /\ pc = "idle"
    /\ hOp = "get_dir_hash"
    /\ hCalls = 2
    /\ prevResult = "error"
    /\ failing = {}
    /\ lastEnv = "delete"
    /\ dirPresent
    /\ MarkerFile \notin present
    /\ Cardinality(present) >= 2
    /\ result = "ok"
    /\ retHash \in cacheStore
    /\ Cardinality(retHash.value) = Cardinality(present)

\* The manifest of a set of files: relative path to content hash.
ManifestOf(S) == {[rel |-> RelativeTo(f, DataRoot), c |-> Content(f)] : f \in S}

RECURSIVE SumSizes(_)
SumSizes(S) ==
    IF S = {}
    THEN 0
    ELSE LET f == CHOOSE x \in S : TRUE
         IN SizeOf(Content(f)) + SumSizes(S \ {f})

PermutationStep ==
    (/\ pc = "gd_collect"
     /\ pc' # pc
     /\ dirPresent
     /\ \A f \in present : ~IsIgnoreFile(f)) =>
        /\ trie' = ManifestOf(present)
        /\ hinfo' = [isdir |-> TRUE, value |-> ManifestOf(present)]
        /\ hinfo' \in cacheStore'
        /\ DirSize(trie') = SumSizes(present)
        /\ ~nested => (result' = "ok" /\ retHash' = hinfo')

\* C11: the directory hash of a directory without ignore-marker file is a
\* function of the set of its files and their contents alone: whatever the
\* order in which the walk listed them, whichever of them had their hash in
\* the fingerprint cache and in whatever order the workers finished, the
\* manifest maps each file's relative path to its content hash, and the
\* directory hash and the aggregate size are those of that manifest.
C11_PermutationInvariant == [][PermutationStep]_vars

\* A directory hash was computed with one file's hash taken from the
\* fingerprint cache and the other two hashed in an order that is not the
\* files' own.
C11_Witness ==
    /\ pc = "idle"
    /\ hOp = "get_dir_hash"
    /\ result = "ok"
    /\ dirPresent
    /\ units = <<HashFile(3), HashFile(2)>>
    /\ present = {HashFile(1), HashFile(2), HashFile(3)}
    /\ retHash.value = ManifestOf(present)
    /\ retHash \in cacheStore

\* The concurrent hashing of a batch is under way or being left.
InBatch == session = "hashing" /\ pc \in {"map", "mapcancel", "exit_err", "exit_ok"}

FirstFailureStep ==
    /\ (InBatch /\ firstFailed # <<>>) =>
          /\ \A u \in UnitSet : fut[u] = "pending" => fut'[u] # "running"
          /\ cacheStore' = cacheStore
          /\ stateDb' = stateDb
    /\ InBatch =>
          \A u \in UnitSet : fut[u] = "running" => fut'[u] \in {"running", "done", "failed"}
    /\ (pc = "exit_err" /\ pc' = "idle") =>
          /\ result' = "error"
          /\ retHash' = NoHash
          /\ raised' = HashError(firstFailed)

\* C12 as stated: from the first failure of a unit of the batch on, no unit
\* that has not started starts, running units are left to finish, nothing is
\* persisted or saved, and the call raises the error of that first failure.
C12_FirstFailureCancelsAndPropagates == [][FirstFailureStep]_vars

FirstInOrderStep ==
    /\ InBatch =>
          /\ \A u \in UnitSet : fut[u] = "cancelled" => fut'[u] = "cancelled"
          /\ \A u \in UnitSet : fut[u] = "running" => fut'[u] \in {"running", "done", "failed"}
    /\ (pc = "mapcancel" /\ session = "hashing") =>
          /\ \A u \in UnitSet :
                IndexOf(u) > ci => (fut[u] # "pending" /\ (fut'[u] = "running" => fut[u] = "running"))
          /\ \A u \in UnitSet : IndexOf(u) < ri => fut[u] = "done"
          /\ fut[units[ri]] = "failed"
    /\ (pc = "exit_err" /\ session = "hashing") =>
          /\ \A u \in UnitSet : fut'[u] = "running" => fut[u] = "running"
          /\ \A u \in UnitSet : fut[u] # "pending"
    /\ (InBatch /\ \E u \in UnitSet : fut[u] = "failed") =>
          /\ cacheStore' = cacheStore
          /\ stateDb' = stateDb
          /\ pc' \notin {"gd_collect", "gh_check", "gh_save"}
    /\ (pc = "exit_err" /\ pc' = "idle") =>
          /\ result' = "error"
          /\ retHash' = NoHash
          /\ fut[units[ri]] = "failed"
          /\ \A j \in 1..(ri - 1) : fut[units[j]] = "done"
          /\ raised' = HashError(units[ri])

\* C12 as amended: the results are taken in the order of submission; when the
\* one taken is a failure, the units submitted after it are cancelled one at
\* a time, the last submitted first: a unit whose future was cancelled never
\* starts, so none starts once that loop is over, while a unit the loop has
\* not reached yet may still be started by a free worker; running units are
\* left to finish, and the call raises the failure taken, the first in the
\* order of submission, with no manifest persisted and nothing saved in the
\* fingerprint cache.  It need not be the failure that came first, and units
\* may start between a failure and its being taken.
C12_FirstInOrderPropagates == [][FirstInOrderStep]_vars

\* The call raised the failure of the first file submitted although another
\* file's hashing had failed before it.
C12_Witness ==
    /\ pc = "idle"
    /\ hOp = "get_dir_hash"
    /\ result = "error"
    /\ raised.kind = "HashError"
    /\ firstFailed # <<>>
    /\ raised.member # firstFailed
    /\ raised.member = units[1]
    /\ cacheStore = {}

\* The public operations and the primitive each of them needs.
Needs == {<<"upload", "_upload">>, <<"download", "_download">>,
          <<"upload_fobj", "_upload_fobj">>}

UnsupportedStep ==
    \A n \in Needs :
        (callNo' = callNo + 1 /\ api' = n[1] /\ n[2] \notin prims)
            => /\ result' = "error"
               /\ raised' = RemoteActionNotImplemented(n[1], scheme)
               /\ called' = "none"
               /\ pc' = "idle"
               /\ fsVars' = fsVars

\* C13: a call of upload, download or upload_fobj on a tree without the
\* primitive the operation needs raises RemoteActionNotImplemented naming
\* the operation and the tree's scheme, whatever the schemes of the two
\* locations are, and calls no primitive, makes no directory and writes no
\* temporary or destination object.
C13_UnsupportedBeforeIO == [][UnsupportedStep]_vars

C13_Witness ==
    /\ api = "upload"
    /\ "_upload" \notin prims
    /\ toScheme # scheme
    /\ fromScheme # "local"
    /\ raised = RemoteActionNotImplemented("upload", scheme)
    /\ called = "none"
    /\ dest[ToRoot] = InitialObj

\* C14: while and after upload or upload_fobj transfers an object, the
\* destination never holds a partially written object: the object is
\* written to a temporary file and reaches the destination by a move only.
C14_UploadNeverPartial ==
    api \in {"upload", "upload_fobj"} => dest[ToRoot].st # "part"

DownloadCalled == callNo' = callNo + 1 /\ api' = "download" /\ "_download" \in prims

SameSchemeStep ==
    (DownloadCalled /\ fromScheme = scheme /\ toScheme = scheme /\ scheme # "local")
        => /\ called' = "copy"
           /\ pc' = "idle"
           /\ units' = units
           /\ tmpfs' = tmpfs
           /\ dirs' = dirs
           /\ raised' = CopyError
           /\ (CopyError = NoErr => result' = "ok" /\ retval' = "0")
           /\ (CopyError # NoErr => result' = "error" /\ dest' = dest)

CrossSchemeStep ==
    (DownloadCalled /\ (fromScheme # scheme \/ toScheme \notin {scheme, "local"}))
        => /\ result' = "error"
           /\ raised' = NotImplementedError
           /\ called' = "none"
           /\ pc' = "idle"
           /\ units' = units
           /\ fsVars' = fsVars

\* C19: a download by a tree that has the download primitive, from a
\* location of the tree's scheme to a location of the same, non-local
\* scheme, calls the tree's copy and returns 0 when copy returns, without
\* starting the streaming download, making a temporary file or walking the
\* source; a download from a location of another scheme, or to a location
\* that is neither of the tree's scheme nor local, raises
\* NotImplementedError and calls and writes nothing.
C19_SameSchemeCopies == [][SameSchemeStep /\ CrossSchemeStep]_vars

C19_Witness ==
    /\ api = "download"
    /\ scheme = "s3"
    /\ fromScheme = "s3"
    /\ toScheme = "s3"
    /\ called = "copy"
    /\ result = "ok"
    /\ retval = "0"
    /\ dest[ToRoot] = FullOf(FromRoot)
    /\ tmpfs = [t \in TmpLocs |-> NoObj]

GcReturned == gcPc = "done"

RemovedRefs == {r \in RefIds : refs0[r] # "none" /\ refs[r] = "none"}

RemovedQueued == {e.id : e \in Range(stash0)} \ {e.id : e \in Range(stash)}

\* C15: when gc returns after working with a non-empty keep_revs, every
\* experiment reference whose baseline is not in keep_revs is gone, every
\* reference whose baseline is in keep_revs is as it was, and the value
\* returned is the number of references removed plus the number of queued
\* entries removed.
C15_RemovesUnretainedRefs ==
    (GcReturned /\ keep_revs # {})
        => /\ \A r \in RefIds :
                /\ (refs0[r] \notin keep_revs => refs[r] = "none")
                /\ (refs0[r] \in keep_revs => refs[r] = refs0[r])
           /\ gcRet = Cardinality(RemovedRefs) + Cardinality(RemovedQueued)

C15_Witness ==
    /\ GcReturned
    /\ keep_revs = {"rev1"}
    /\ refs0[1] = "rev1"
    /\ refs0[2] = "rev2"
    /\ Len(stash0) = 1
    /\ stash0[1].baseline = "rev2"
    /\ refs[1] = "rev1"
    /\ refs[2] = "none"
    /\ stash = <<>>
    /\ gcRet = 2

\* C16: when gc returns after working with a non-empty keep_revs, each of
\* EXEC_BRANCH, EXEC_APPLY and EXEC_CHECKPOINT is unset if it pointed at a
\* reference gc removed and is as it was otherwise.
C16_PointerClearedIffTargetRemoved ==
    (GcReturned /\ keep_revs # {})
        => \A n \in ExecNames :
              ptrs[n] = IF ptrs0[n] \in RemovedRefs THEN 0 ELSE ptrs0[n]

\* The queued entries gc is said to leave: those whose baseline is
\* retained, unless the queued argument asks for all to go.
KeptIfFlagRemovesAll(e) == ~queued /\ e.baseline \in keep_revs

\* The queued entries gc leaves: those whose baseline is retained, when the
\* queued argument is set.
KeptIfFlagKeeps(e) == queued /\ e.baseline \in keep_revs

\* C17 as stated: gc leaves the queued entries whose baseline is in
\* keep_revs, in their order, and drops the others; with the queued
\* argument set it drops them all.
C17_FlagRemovesAllQueued ==
    (GcReturned /\ keep_revs # {})
        => stash = SelectSeq(stash0, KeptIfFlagRemovesAll)

\* C17: gc drops every queued entry unless the queued argument is set; with
\* it set, gc leaves the queued entries whose baseline is in keep_revs, in
\* their order, and drops exactly the others.
C17_FlagKeepsRetainedQueued ==
    (GcReturned /\ keep_revs # {})
        => /\ stash = SelectSeq(stash0, KeptIfFlagKeeps)
           /\ Len(delete_stashes) = Len(stash0) - Len(stash)

C17_Witness ==
    /\ GcReturned
    /\ queued
    /\ keep_revs = {"rev1"}
    /\ Len(stash0) = 3
    /\ stash0[1].baseline = "rev2"
    /\ stash0[2].baseline = "rev1"
    /\ stash0[3].baseline = "rev2"
    /\ delete_stashes = <<0, 2>>
    /\ stash = <<stash0[2]>>

\* C20: when keep_revs is empty gc returns 0 and no reference, pointer or
\* queued entry is changed, whatever the queued argument is.
C20_EmptyKeepChangesNothing ==
    (GcReturned /\ keep_revs = {})
        => /\ gcRet = 0
           /\ refs = refs0
           /\ ptrs = ptrs0
           /\ stash = stash0

C20_Witness ==
    /\ GcReturned
    /\ keep_revs = {}
    /\ ~queued
    /\ Len(stash0) = 2
    /\ ptrs0[EXEC_BRANCH] = 1
    /\ ptrs0[EXEC_APPLY] = 2
    /\ gcRet = 0
    /\ stash = stash0
    /\ ptrs = ptrs0

\* The manifest entry that attributes hash hi to file f.
EntryFor(f, hi) == [rel |-> RelativeTo(f, DataRoot), c |-> HashContent(hi)]

\* walk_files yields each file at most once, and every file for as long as
\* the directory is there; each file yielded is looked up in the state: one
\* that has an entry is entered into the manifest with that entry, under a
\* key no other file has, one that has none is appended to the files to
\* hash; these are submitted as they stand when the generator is exhausted.
WalkAttributionStep ==
    /\ (pc = "gd_walk" /\ pc' = "gd_next") =>
          /\ Range(walk') = present
          /\ Len(walk') = Cardinality(present)
          /\ trie' = {}
          /\ units' = <<>>
    /\ (pc = "gd_next" /\ pc' = "gd_next" /\ walk' # walk) =>
          /\ ~dirPresent
          /\ trie' = trie
          /\ units' = units
    /\ (pc = "gd_next" /\ pc' = "gd_get") =>
          /\ walk' = walk
          /\ trie' = trie
          /\ units' = units
    /\ (pc = "gd_get" /\ pc' = "gd_next") =>
          LET f == Head(walk) IN
          /\ walk' = Tail(walk)
          /\ IF Truthy(StateGet(f))
             THEN /\ trie' = trie \cup {EntryFor(f, StateGet(f))}
                  /\ Cardinality(trie') = Cardinality(trie) + 1
                  /\ units' = units
             ELSE /\ units' = Append(units, f)
                  /\ trie' = trie
    /\ (pc = "gd_next" /\ pc' = "map") =>
          /\ walk = <<>>
          /\ units' = units
          /\ queue' = units
          /\ trie' = trie
          /\ \A i, j \in 1..Len(units) : units[i] = units[j] => i = j
          /\ \A f \in Range(units), e \in trie : e.rel # RelativeTo(f, DataRoot)

\* The manifest built from the pool's results has the entries of the walk
\* and, for every submitted file, one entry with the hash computed from it.
PoolAttributionStep ==
    (/\ pc = "gd_collect"
     /\ pc' # pc
     /\ ~detail
     /\ \A f \in Range(units) : ~IsIgnoreFile(f)) =>
        /\ trie \subseteq trie'
        /\ \A f \in Range(units) :
              /\ hres[f] = FileHashOf(f)
              /\ EntryFor(f, hres[f]) \in trie'
              /\ \A e \in trie' : e.rel = RelativeTo(f, DataRoot) => e = EntryFor(f, hres[f])
        /\ Cardinality(trie') = Cardinality(trie) + Len(units)
        /\ hinfo'.value = trie'

\* C18: on the walk-and-hash path the manifest of a successful get_dir_hash
\* has exactly one entry per file walk_files returned, under the file's
\* path relative to the root, holding the hash of that same file: the
\* cached one if the state had one, else the one the pool computed from
\* that file, whatever the pool size and the order of completion.
C18_EntriesAttributedToTheirFile ==
    [][WalkAttributionStep /\ PoolAttributionStep]_vars

C18_Witness ==
    /\ pc = "idle"
    /\ hOp = "get_dir_hash"
    /\ result = "ok"
    /\ jobs = 2
    /\ units = <<HashFile(2), HashFile(3), HashFile(1)>>
    /\ Cardinality(retHash.value) = 3
    /\ \A i \in 1..3 : EntryFor(HashFile(i), FileHashOf(HashFile(i))) \in retHash.value

====
